---- MODULE Spec2Model ----
(***************************************************************************)
(* Hotel management system: the entity model (hotel_system.py) and the     *)
(* whole-file JSON persistence engine (persistence.py).                    *)
(*                                                                         *)
(* A backing file is a record [cond, data]: cond is the condition of the   *)
(* file on disk and data the JSON array it holds when cond = "ok".  A      *)
(* stored element is a record with a shape ("object" or another JSON       *)
(* value), the set of keys it lacks, and the entity's fields.              *)
(***************************************************************************)
EXTENDS Integers, Sequences, FiniteSets, TLC

\* Bound on the number of records held by the three files together.
MaxRecords == 2
\* Bound on the clock read by datetime.now().
MaxClock == 1
\* Bound on the total_rooms of the hotels a caller builds.
MaxRooms == 2
\* Bound on the number of files that are damaged at one time.
MaxDamaged == 1

\* Python's None: what dict.get returns for a key the dict lacks, and a
\* field value that is no string.
None == "<None>"
\* The int 5 held by a field that is declared a string.
Five == "<5>"
\* The string '2' held by a field that is declared a number, as a code no
\* count and no price of the model reaches.
NotANumber == 0 - 1000

\* isinstance(value, str), isinstance(value, int), isinstance(value, (int, float))
isinstance_str(value) == value \notin {None, Five}
isinstance_int(value) == value # NotANumber
isinstance_number(value) == value # NotANumber
\* bool(value) of a string-field value: None and '' are false.
truthy(value) == value \notin {None, ""}

HotelIds == {"H1", "H2"}
CustomerIds == {"C1", "C2"}
ReservationIds == {"R1", "R2"}

----------------------------------------------------------------------------
(* Entity model: Hotel *)

Hotel(hotel_id, name, location, total_rooms, rooms_available, price_per_room, now) ==
    [hotel_id |-> hotel_id, name |-> name, location |-> location,
     total_rooms |-> total_rooms, rooms_available |-> rooms_available,
     price_per_room |-> price_per_room, created_date |-> now]

\* bool(value and isinstance(value, str))
validate_string_field(value) == truthy(value) /\ isinstance_str(value)

\* _validate_room_counts without the comparison with total_rooms.
Hotel_validate_room_counts_unbounded(h) ==
    LET rooms_valid == /\ isinstance_int(h.total_rooms) /\ h.total_rooms > 0
                       /\ isinstance_int(h.rooms_available) /\ h.rooms_available >= 0
    IN  rooms_valid

Hotel_validate_room_counts(h) ==
    LET rooms_valid == /\ isinstance_int(h.total_rooms) /\ h.total_rooms > 0
                       /\ isinstance_int(h.rooms_available) /\ h.rooms_available >= 0
    IN  rooms_valid /\ h.rooms_available <= h.total_rooms

Hotel_validate_price(h) == isinstance_number(h.price_per_room) /\ h.price_per_room >= 0

Hotel_validate(h) ==
    /\ validate_string_field(h.hotel_id)
    /\ validate_string_field(h.name)
    /\ validate_string_field(h.location)
    /\ Hotel_validate_room_counts(h)
    /\ Hotel_validate_price(h)

Hotel_to_dict(h) ==
    [shape |-> "object", absent |-> {},
     hotel_id |-> h.hotel_id, name |-> h.name, location |-> h.location,
     total_rooms |-> h.total_rooms, rooms_available |-> h.rooms_available,
     price_per_room |-> h.price_per_room, created_date |-> h.created_date]

\* The exception cls(...) raises on data, "none" when it builds the instance.
Hotel_from_dict_exc(data) ==
    IF data.shape # "object" THEN "TypeError"
    ELSE IF {"hotel_id", "name", "location", "total_rooms"} \cap data.absent # {}
         THEN "KeyError"
         ELSE "none"

Hotel_from_dict(data, now) ==
    Hotel(data.hotel_id, data.name, data.location, data.total_rooms,
          IF "rooms_available" \in data.absent THEN data.total_rooms
                                               ELSE data.rooms_available,
          IF "price_per_room" \in data.absent THEN 0 ELSE data.price_per_room,
          now)

\* Hotel.update without the test of the occupied rooms.
Hotel_update_unchecked(h, name, location, total_rooms, price_per_room) ==
    LET h1 == IF name # <<>> THEN [h EXCEPT !.name = name[1]] ELSE h
        h2 == IF location # <<>> THEN [h1 EXCEPT !.location = location[1]] ELSE h1
        rejected == total_rooms # <<>> /\ ~isinstance_number(total_rooms[1])
        rooms_diff == total_rooms[1] - h2.total_rooms
        h3 == IF total_rooms # <<>>
              THEN [h2 EXCEPT !.total_rooms = total_rooms[1],
                              !.rooms_available = h2.rooms_available + rooms_diff]
              ELSE h2
        h4 == IF price_per_room # <<>>
              THEN [h3 EXCEPT !.price_per_room = price_per_room[1]]
              ELSE h3
    IN  IF rejected THEN [val |-> FALSE, self |-> h2]
                    ELSE [val |-> Hotel_validate(h4), self |-> h4]

\* Hotel.update that sets total_rooms and leaves rooms_available as it was.
Hotel_update_keeping_available(h, name, location, total_rooms, price_per_room) ==
    LET h1 == IF name # <<>> THEN [h EXCEPT !.name = name[1]] ELSE h
        h2 == IF location # <<>> THEN [h1 EXCEPT !.location = location[1]] ELSE h1
        rejected == /\ total_rooms # <<>>
                    /\ \/ ~isinstance_number(total_rooms[1])
                       \/ total_rooms[1] < h2.total_rooms - h2.rooms_available
        h3 == IF total_rooms # <<>>
              THEN [h2 EXCEPT !.total_rooms = total_rooms[1]]
              ELSE h2
        h4 == IF price_per_room # <<>>
              THEN [h3 EXCEPT !.price_per_room = price_per_room[1]]
              ELSE h3
    IN  IF rejected THEN [val |-> FALSE, self |-> h2]
                    ELSE [val |-> Hotel_validate(h4), self |-> h4]

\* Hotel.update that compares the new total with the rooms available.
Hotel_update_comparing_available(h, name, location, total_rooms, price_per_room) ==
    LET h1 == IF name # <<>> THEN [h EXCEPT !.name = name[1]] ELSE h
        h2 == IF location # <<>> THEN [h1 EXCEPT !.location = location[1]] ELSE h1
        rejected == /\ total_rooms # <<>>
                    /\ \/ ~isinstance_number(total_rooms[1])
                       \/ total_rooms[1] < h2.rooms_available
        rooms_diff == total_rooms[1] - h2.total_rooms
        h3 == IF total_rooms # <<>>
              THEN [h2 EXCEPT !.total_rooms = total_rooms[1],
                              !.rooms_available = h2.rooms_available + rooms_diff]
              ELSE h2
        h4 == IF price_per_room # <<>>
              THEN [h3 EXCEPT !.price_per_room = price_per_room[1]]
              ELSE h3
    IN  IF rejected THEN [val |-> FALSE, self |-> h2]
                    ELSE [val |-> Hotel_validate(h4), self |-> h4]

\* Hotel.update that returns True once the fields are assigned.
Hotel_update_returning_true(h, name, location, total_rooms, price_per_room) ==
    LET h1 == IF name # <<>> THEN [h EXCEPT !.name = name[1]] ELSE h
        h2 == IF location # <<>> THEN [h1 EXCEPT !.location = location[1]] ELSE h1
        rejected == /\ total_rooms # <<>>
                    /\ \/ ~isinstance_number(total_rooms[1])
                       \/ total_rooms[1] < h2.total_rooms - h2.rooms_available
        rooms_diff == total_rooms[1] - h2.total_rooms
        h3 == IF total_rooms # <<>>
              THEN [h2 EXCEPT !.total_rooms = total_rooms[1],
                              !.rooms_available = h2.rooms_available + rooms_diff]
              ELSE h2
        h4 == IF price_per_room # <<>>
              THEN [h3 EXCEPT !.price_per_room = price_per_room[1]]
              ELSE h3
    IN  IF rejected THEN [val |-> FALSE, self |-> h2]
                    ELSE [val |-> TRUE, self |-> h4]

\* Hotel.update that restores the hotel when validate() fails.
Hotel_update_rolling_back(h, name, location, total_rooms, price_per_room) ==
    LET h1 == IF name # <<>> THEN [h EXCEPT !.name = name[1]] ELSE h
        h2 == IF location # <<>> THEN [h1 EXCEPT !.location = location[1]] ELSE h1
        rejected == /\ total_rooms # <<>>
                    /\ \/ ~isinstance_number(total_rooms[1])
                       \/ total_rooms[1] < h2.total_rooms - h2.rooms_available
        rooms_diff == total_rooms[1] - h2.total_rooms
        h3 == IF total_rooms # <<>>
              THEN [h2 EXCEPT !.total_rooms = total_rooms[1],
                              !.rooms_available = h2.rooms_available + rooms_diff]
              ELSE h2
        h4 == IF price_per_room # <<>>
              THEN [h3 EXCEPT !.price_per_room = price_per_room[1]]
              ELSE h3
    IN  IF rejected THEN [val |-> FALSE, self |-> h2]
                    ELSE IF Hotel_validate(h4) THEN [val |-> TRUE, self |-> h4]
                                             ELSE [val |-> FALSE, self |-> h]

\* Hotel.update: an omitted argument is <<>>, a supplied one is <<v>>.
\* Returns the value returned and the instance after the call.
Hotel_update(h, name, location, total_rooms, price_per_room) ==
    LET h1 == IF name # <<>> THEN [h EXCEPT !.name = name[1]] ELSE h
        h2 == IF location # <<>> THEN [h1 EXCEPT !.location = location[1]] ELSE h1
        rejected == /\ total_rooms # <<>>
                    /\ \/ ~isinstance_number(total_rooms[1])
                       \/ total_rooms[1] < h2.total_rooms - h2.rooms_available
        rooms_diff == total_rooms[1] - h2.total_rooms
        h3 == IF total_rooms # <<>>
              THEN [h2 EXCEPT !.total_rooms = total_rooms[1],
                              !.rooms_available = h2.rooms_available + rooms_diff]
              ELSE h2
        h4 == IF price_per_room # <<>>
              THEN [h3 EXCEPT !.price_per_room = price_per_room[1]]
              ELSE h3
    IN  IF rejected THEN [val |-> FALSE, self |-> h2]
                    ELSE [val |-> Hotel_validate(h4), self |-> h4]

\* The exception Hotel.update lets through, "none" when it returns: a
\* total_rooms that is no number cannot be compared with the occupied rooms.
Hotel_update_exc(h, name, location, total_rooms, price_per_room) ==
    IF total_rooms # <<>> /\ ~isinstance_number(total_rooms[1])
    THEN "TypeError" ELSE "none"

\* reserve_room that also succeeds with no room available.
Hotel_reserve_room_at_zero(h) ==
    IF h.rooms_available >= 0
    THEN [val |-> TRUE, self |-> [h EXCEPT !.rooms_available = h.rooms_available - 1]]
    ELSE [val |-> FALSE, self |-> h]

Hotel_reserve_room(h) ==
    IF h.rooms_available > 0
    THEN [val |-> TRUE, self |-> [h EXCEPT !.rooms_available = h.rooms_available - 1]]
    ELSE [val |-> FALSE, self |-> h]

\* cancel_reservation that also succeeds with every room available.
Hotel_cancel_reservation_at_total(h) ==
    IF h.rooms_available <= h.total_rooms
    THEN [val |-> TRUE, self |-> [h EXCEPT !.rooms_available = h.rooms_available + 1]]
    ELSE [val |-> FALSE, self |-> h]

Hotel_cancel_reservation(h) ==
    IF h.rooms_available < h.total_rooms
    THEN [val |-> TRUE, self |-> [h EXCEPT !.rooms_available = h.rooms_available + 1]]
    ELSE [val |-> FALSE, self |-> h]

----------------------------------------------------------------------------
(* Entity model: Customer *)

Customer(customer_id, name, email, phone, now) ==
    [customer_id |-> customer_id, name |-> name, email |-> email,
     phone |-> phone, created_date |-> now]

\* '@' in email, over the e-mail strings of the model
has_at(email) == email \in {"john@example.com", "jane@example.com"}

Customer_validate(c) ==
    IF ~truthy(c.customer_id) \/ ~isinstance_str(c.customer_id) THEN FALSE
    ELSE IF ~truthy(c.name) \/ ~isinstance_str(c.name) THEN FALSE
    ELSE IF ~truthy(c.email) \/ ~isinstance_str(c.email) THEN FALSE
    ELSE IF ~has_at(c.email) THEN FALSE
    ELSE IF ~truthy(c.phone) \/ ~isinstance_str(c.phone) THEN FALSE
    ELSE TRUE

Customer_to_dict(c) ==
    [shape |-> "object", absent |-> {},
     customer_id |-> c.customer_id, name |-> c.name, email |-> c.email,
     phone |-> c.phone, created_date |-> c.created_date]

Customer_from_dict_exc(data) ==
    IF data.shape # "object" THEN "TypeError"
    ELSE IF {"customer_id", "name", "email", "phone"} \cap data.absent # {}
         THEN "KeyError"
         ELSE "none"

Customer_from_dict(data, now) ==
    Customer(data.customer_id, data.name, data.email, data.phone, now)

Customer_update(c, name, email, phone) ==
    LET c1 == IF name # <<>> THEN [c EXCEPT !.name = name[1]] ELSE c
        c2 == IF email # <<>> THEN [c1 EXCEPT !.email = email[1]] ELSE c1
        c3 == IF phone # <<>> THEN [c2 EXCEPT !.phone = phone[1]] ELSE c2
    IN  [val |-> Customer_validate(c3), self |-> c3]

----------------------------------------------------------------------------
(* Entity model: Reservation *)

Reservation(reservation_id, customer_id, hotel_id, check_in, check_out, status, now) ==
    [reservation_id |-> reservation_id, customer_id |-> customer_id,
     hotel_id |-> hotel_id, check_in |-> check_in, check_out |-> check_out,
     status |-> status, created_date |-> now]

\* datetime.fromisoformat over the date strings of the model: whether the
\* string parses, whether the result carries a UTC offset, and its instant.
fromisoformat(s) ==
    CASE s = "2026-03-01" -> [ok |-> TRUE, aware |-> FALSE, t |-> 1]
      [] s = "2026-03-05" -> [ok |-> TRUE, aware |-> FALSE, t |-> 5]
      [] s = "2026-03-05T00:00:00+00:00" -> [ok |-> TRUE, aware |-> TRUE, t |-> 5]
      [] OTHER -> [ok |-> FALSE, aware |-> FALSE, t |-> 0]

Reservation_validate_string_fields(r) ==
    /\ truthy(r.reservation_id) /\ isinstance_str(r.reservation_id)
    /\ truthy(r.customer_id) /\ isinstance_str(r.customer_id)
    /\ truthy(r.hotel_id) /\ isinstance_str(r.hotel_id)
    /\ truthy(r.check_in) /\ isinstance_str(r.check_in)
    /\ truthy(r.check_out) /\ isinstance_str(r.check_out)

\* _validate_dates: "True", "False" (also on ValueError), or "TypeError" when
\* an offset-naive datetime is compared with an offset-aware one.
Reservation_validate_dates(r) ==
    LET check_in_date == fromisoformat(r.check_in)
        check_out_date == fromisoformat(r.check_out)
    IN  IF ~check_in_date.ok \/ ~check_out_date.ok THEN "False"
        ELSE IF check_in_date.aware # check_out_date.aware THEN "TypeError"
        ELSE IF check_in_date.t < check_out_date.t THEN "True" ELSE "False"

\* The exception validate() lets through, "none" when it returns.
Reservation_validate_exc(r) ==
    IF /\ Reservation_validate_string_fields(r)
       /\ r.status \in {"active", "cancelled"}
       /\ Reservation_validate_dates(r) = "TypeError"
    THEN "TypeError" ELSE "none"

Reservation_validate(r) ==
    /\ Reservation_validate_string_fields(r)
    /\ r.status \in {"active", "cancelled"}
    /\ Reservation_validate_dates(r) = "True"

Reservation_to_dict(r) ==
    [shape |-> "object", absent |-> {},
     reservation_id |-> r.reservation_id, customer_id |-> r.customer_id,
     hotel_id |-> r.hotel_id, check_in |-> r.check_in, check_out |-> r.check_out,
     status |-> r.status, created_date |-> r.created_date]

Reservation_from_dict_exc(data) ==
    IF data.shape # "object" THEN "TypeError"
    ELSE IF {"reservation_id", "customer_id", "hotel_id", "check_in", "check_out"}
                \cap data.absent # {}
         THEN "KeyError"
         ELSE "none"

Reservation_from_dict(data, now) ==
    Reservation(data.reservation_id, data.customer_id, data.hotel_id,
                data.check_in, data.check_out,
                IF "status" \in data.absent THEN "active" ELSE data.status,
                now)

\* cancel() that gives a cancelled reservation its active status back.
Reservation_cancel_toggling(r) ==
    IF r.status = "active"
    THEN [val |-> TRUE, self |-> [r EXCEPT !.status = "cancelled"]]
    ELSE [val |-> FALSE, self |-> [r EXCEPT !.status = "active"]]

Reservation_cancel(r) ==
    IF r.status = "active"
    THEN [val |-> TRUE, self |-> [r EXCEPT !.status = "cancelled"]]
    ELSE [val |-> FALSE, self |-> r]

----------------------------------------------------------------------------
(* Persistence engine: the backing files *)

EmptyFile == [cond |-> "ok", data |-> <<>>]

\* _read_json_file: the list read, or the exception that leaves the method.
\* A missing file (FileNotFoundError), undecodable text (JSONDecodeError) and
\* JSON that is not a list all give []; open() failing for another reason
\* (PermissionError, an OSError) is caught by neither except clause.
read_json_file(file) ==
    CASE file.cond = "ok" -> [exc |-> "none", data |-> file.data]
      [] file.cond = "unreadable" -> [exc |-> "PermissionError", data |-> <<>>]
      [] OTHER -> [exc |-> "none", data |-> <<>>]

\* _write_json_file: io is what the storage does with the write.  "ok": the
\* whole list replaces the file.  "open_fails": open() raises OSError, the file
\* is as before.  "write_fails": open() has truncated the file and the dump
\* raises OSError, leaving text that is not JSON.  OSError is not caught.
write_json_file(file, data, io) ==
    CASE io = "ok" -> [exc |-> "none", val |-> TRUE,
                       file |-> [cond |-> "ok", data |-> data]]
      [] io = "open_fails" -> [exc |-> "OSError", val |-> FALSE, file |-> file]
      [] OTHER -> [exc |-> "OSError", val |-> FALSE,
                   file |-> [cond |-> "invalid_json", data |-> <<>>]]

\* d.get(k) for a string-valued key k of a stored object
dict_get(d, k) == IF k \in d.absent THEN None ELSE d[k]

\* for i, x in enumerate(data): if x.get(kf) == key: ...
\* The index of the first match (0: none); x.get raises AttributeError on an
\* element that is not an object, when the loop reaches it.
RECURSIVE scan(_, _, _, _)
scan(data, kf, key, i) ==
    IF i > Len(data) THEN [exc |-> "none", at |-> 0]
    ELSE IF data[i].shape # "object" THEN [exc |-> "AttributeError", at |-> i]
    ELSE IF dict_get(data[i], kf) = key THEN [exc |-> "none", at |-> i]
    ELSE scan(data, kf, key, i + 1)

\* [x for x in data if x.get(kf) != key]
RECURSIVE filter_out(_, _, _)
filter_out(data, kf, key) ==
    IF data = <<>> THEN <<>>
    ELSE IF dict_get(Head(data), kf) # key
         THEN <<Head(data)>> \o filter_out(Tail(data), kf, key)
         ELSE filter_out(Tail(data), kf, key)

has_non_object(data) == \E i \in 1..Len(data) : data[i].shape # "object"

\* The result of a method: the exception that leaves it ("none": it returns),
\* the boolean returned, and the file afterwards.
Returns(val, file) == [exc |-> "none", val |-> val, file |-> file]
Raises(exc, file) == [exc |-> exc, val |-> FALSE, file |-> file]

\* create_record inserting the new record at the front of the list.
create_record_at_front(file, kf, key, dict, io) ==
    LET rd == read_json_file(file)
        s == scan(rd.data, kf, key, 1)
    IN  IF rd.exc # "none" THEN Raises(rd.exc, file)
        ELSE IF s.exc # "none" THEN Raises(s.exc, file)
        ELSE IF s.at # 0 THEN Returns(FALSE, file)
        ELSE write_json_file(file, <<dict>> \o rd.data, io)

\* Body shared by create_hotel, create_customer and create_reservation after
\* validate(): read, scan for the key, append, write.
create_record(file, kf, key, dict, io) ==
    LET rd == read_json_file(file)
        s == scan(rd.data, kf, key, 1)
    IN  IF rd.exc # "none" THEN Raises(rd.exc, file)
        ELSE IF s.exc # "none" THEN Raises(s.exc, file)
        ELSE IF s.at # 0 THEN Returns(FALSE, file)
        ELSE write_json_file(file, Append(rd.data, dict), io)

\* update_record replacing the last record under the key, not the first.
update_record_last_match(file, kf, key, dict, io) ==
    LET rd == read_json_file(file)
        hits == {i \in 1..Len(rd.data) : dict_get(rd.data[i], kf) = key}
        last == CHOOSE i \in hits : \A j \in hits : j <= i
    IN  IF rd.exc # "none" THEN Raises(rd.exc, file)
        ELSE IF has_non_object(rd.data) THEN Raises("AttributeError", file)
        ELSE IF hits # {}
             THEN write_json_file(file, [rd.data EXCEPT ![last] = dict], io)
             ELSE Returns(FALSE, file)

\* Body shared by the three update methods after validate().
update_record(file, kf, key, dict, io) ==
    LET rd == read_json_file(file)
        s == scan(rd.data, kf, key, 1)
    IN  IF rd.exc # "none" THEN Raises(rd.exc, file)
        ELSE IF s.exc # "none" THEN Raises(s.exc, file)
        ELSE IF s.at # 0
             THEN write_json_file(file, [rd.data EXCEPT ![s.at] = dict], io)
             ELSE Returns(FALSE, file)

\* delete_record that removes the first record under the key only.
delete_record_first_match(file, kf, key, io) ==
    LET rd == read_json_file(file)
        s == scan(rd.data, kf, key, 1)
    IN  IF rd.exc # "none" THEN Raises(rd.exc, file)
        ELSE IF has_non_object(rd.data) THEN Raises("AttributeError", file)
        ELSE IF s.at # 0
             THEN write_json_file(file, SubSeq(rd.data, 1, s.at - 1)
                                            \o SubSeq(rd.data, s.at + 1, Len(rd.data)), io)
             ELSE Returns(FALSE, file)

\* Body shared by the three delete methods.
delete_record(file, kf, key, io) ==
    LET rd == read_json_file(file)
        kept == filter_out(rd.data, kf, key)
    IN  IF rd.exc # "none" THEN Raises(rd.exc, file)
        ELSE IF has_non_object(rd.data) THEN Raises("AttributeError", file)
        ELSE IF Len(kept) < Len(rd.data) THEN write_json_file(file, kept, io)
        ELSE Returns(FALSE, file)

create_hotel(file, hotel, io) ==
    IF ~Hotel_validate(hotel) THEN Returns(FALSE, file)
    ELSE create_record(file, "hotel_id", hotel.hotel_id, Hotel_to_dict(hotel), io)

update_hotel(file, hotel_id, hotel, io) ==
    IF ~Hotel_validate(hotel) THEN Returns(FALSE, file)
    ELSE update_record(file, "hotel_id", hotel_id, Hotel_to_dict(hotel), io)

delete_hotel(file, hotel_id, io) == delete_record(file, "hotel_id", hotel_id, io)

create_customer(file, customer, io) ==
    IF ~Customer_validate(customer) THEN Returns(FALSE, file)
    ELSE create_record(file, "customer_id", customer.customer_id,
                       Customer_to_dict(customer), io)

update_customer(file, customer_id, customer, io) ==
    IF ~Customer_validate(customer) THEN Returns(FALSE, file)
    ELSE update_record(file, "customer_id", customer_id, Customer_to_dict(customer), io)

delete_customer(file, customer_id, io) ==
    delete_record(file, "customer_id", customer_id, io)

create_reservation(file, reservation, io) ==
    IF Reservation_validate_exc(reservation) # "none"
    THEN Raises(Reservation_validate_exc(reservation), file)
    ELSE IF ~Reservation_validate(reservation) THEN Returns(FALSE, file)
    ELSE create_record(file, "reservation_id", reservation.reservation_id,
                       Reservation_to_dict(reservation), io)

update_reservation(file, reservation_id, reservation, io) ==
    IF Reservation_validate_exc(reservation) # "none"
    THEN Raises(Reservation_validate_exc(reservation), file)
    ELSE IF ~Reservation_validate(reservation) THEN Returns(FALSE, file)
    ELSE update_record(file, "reservation_id", reservation_id,
                       Reservation_to_dict(reservation), io)

delete_reservation(file, reservation_id, io) ==
    delete_record(file, "reservation_id", reservation_id, io)

----------------------------------------------------------------------------
(* Persistence engine: reads.  A read returns [exc, out]: out is the list
   returned, or for a read by key <<instance>> or <<>> (None). *)

\* The loop of get_hotel: the first element whose key matches and that
\* deserializes, as <<instance>>; <<>> is the None returned when there is none.
RECURSIVE get_hotel_loop(_, _, _, _)
get_hotel_loop(data, hotel_id, now, i) ==
    IF i > Len(data) THEN [exc |-> "none", out |-> <<>>]
    ELSE IF data[i].shape # "object" THEN [exc |-> "AttributeError", out |-> <<>>]
    ELSE IF dict_get(data[i], "hotel_id") = hotel_id /\ Hotel_from_dict_exc(data[i]) = "none"
         THEN [exc |-> "none", out |-> <<Hotel_from_dict(data[i], now)>>]
         ELSE get_hotel_loop(data, hotel_id, now, i + 1)

get_hotel(file, hotel_id, now) ==
    LET rd == read_json_file(file)
    IN  IF rd.exc # "none" THEN [exc |-> rd.exc, out |-> <<>>]
        ELSE get_hotel_loop(rd.data, hotel_id, now, 1)

\* The loop of get_all_hotels: every element that deserializes and validates.
RECURSIVE get_all_hotels_loop(_, _)
get_all_hotels_loop(data, now) ==
    IF data = <<>> THEN <<>>
    ELSE IF /\ Hotel_from_dict_exc(Head(data)) = "none"
            /\ Hotel_validate(Hotel_from_dict(Head(data), now))
         THEN <<Hotel_from_dict(Head(data), now)>> \o get_all_hotels_loop(Tail(data), now)
         ELSE get_all_hotels_loop(Tail(data), now)

\* get_all_hotels with the try around the loop: the first element that does
\* not deserialize ends the read.
get_all_hotels_giving_up(file, now) ==
    LET rd == read_json_file(file)
        bad == {i \in 1..Len(rd.data) : Hotel_from_dict_exc(rd.data[i]) # "none"}
        n == IF bad = {} THEN Len(rd.data)
             ELSE (CHOOSE i \in bad : \A j \in bad : i <= j) - 1
    IN  IF rd.exc # "none" THEN [exc |-> rd.exc, out |-> <<>>]
        ELSE [exc |-> "none", out |-> get_all_hotels_loop(SubSeq(rd.data, 1, n), now)]

get_all_hotels(file, now) ==
    LET rd == read_json_file(file)
    IN  IF rd.exc # "none" THEN [exc |-> rd.exc, out |-> <<>>]
        ELSE [exc |-> "none", out |-> get_all_hotels_loop(rd.data, now)]

\* The loop of get_customer: the first element whose key matches and that
\* deserializes, as <<instance>>; <<>> is the None returned when there is none.
RECURSIVE get_customer_loop(_, _, _, _)
get_customer_loop(data, customer_id, now, i) ==
    IF i > Len(data) THEN [exc |-> "none", out |-> <<>>]
    ELSE IF data[i].shape # "object" THEN [exc |-> "AttributeError", out |-> <<>>]
    ELSE IF dict_get(data[i], "customer_id") = customer_id /\ Customer_from_dict_exc(data[i]) = "none"
         THEN [exc |-> "none", out |-> <<Customer_from_dict(data[i], now)>>]
         ELSE get_customer_loop(data, customer_id, now, i + 1)

get_customer(file, customer_id, now) ==
    LET rd == read_json_file(file)
    IN  IF rd.exc # "none" THEN [exc |-> rd.exc, out |-> <<>>]
        ELSE get_customer_loop(rd.data, customer_id, now, 1)

\* The loop of get_all_customers: every element that deserializes and validates.
RECURSIVE get_all_customers_loop(_, _)
get_all_customers_loop(data, now) ==
    IF data = <<>> THEN <<>>
    ELSE IF /\ Customer_from_dict_exc(Head(data)) = "none"
            /\ Customer_validate(Customer_from_dict(Head(data), now))
         THEN <<Customer_from_dict(Head(data), now)>> \o get_all_customers_loop(Tail(data), now)
         ELSE get_all_customers_loop(Tail(data), now)

get_all_customers(file, now) ==
    LET rd == read_json_file(file)
    IN  IF rd.exc # "none" THEN [exc |-> rd.exc, out |-> <<>>]
        ELSE [exc |-> "none", out |-> get_all_customers_loop(rd.data, now)]

\* The loop of get_reservation: the first element whose key matches and that
\* deserializes, as <<instance>>; <<>> is the None returned when there is none.
RECURSIVE get_reservation_loop(_, _, _, _)
get_reservation_loop(data, reservation_id, now, i) ==
    IF i > Len(data) THEN [exc |-> "none", out |-> <<>>]
    ELSE IF data[i].shape # "object" THEN [exc |-> "AttributeError", out |-> <<>>]
    ELSE IF dict_get(data[i], "reservation_id") = reservation_id /\ Reservation_from_dict_exc(data[i]) = "none"
         THEN [exc |-> "none", out |-> <<Reservation_from_dict(data[i], now)>>]
         ELSE get_reservation_loop(data, reservation_id, now, i + 1)

get_reservation(file, reservation_id, now) ==
    LET rd == read_json_file(file)
    IN  IF rd.exc # "none" THEN [exc |-> rd.exc, out |-> <<>>]
        ELSE get_reservation_loop(rd.data, reservation_id, now, 1)

\* The loop of get_all_reservations: every element that deserializes and validates.
RECURSIVE get_all_reservations_loop(_, _)
get_all_reservations_loop(data, now) ==
    IF data = <<>> THEN <<>>
    ELSE IF /\ Reservation_from_dict_exc(Head(data)) = "none"
            /\ Reservation_validate_exc(Reservation_from_dict(Head(data), now)) = "none"
            /\ Reservation_validate(Reservation_from_dict(Head(data), now))
         THEN <<Reservation_from_dict(Head(data), now)>> \o get_all_reservations_loop(Tail(data), now)
         ELSE get_all_reservations_loop(Tail(data), now)

get_all_reservations(file, now) ==
    LET rd == read_json_file(file)
    IN  IF rd.exc # "none" THEN [exc |-> rd.exc, out |-> <<>>]
        ELSE [exc |-> "none", out |-> get_all_reservations_loop(rd.data, now)]

\* The loop of get_reservations_by_hotel.
RECURSIVE get_reservations_by_hotel_loop(_, _, _)
get_reservations_by_hotel_loop(data, hotel_id, now) ==
    IF data = <<>> THEN <<>>
    ELSE IF /\ dict_get(Head(data), "hotel_id") = hotel_id
            /\ dict_get(Head(data), "status") = "active"
            /\ Reservation_from_dict_exc(Head(data)) = "none"
            /\ Reservation_validate_exc(Reservation_from_dict(Head(data), now)) = "none"
            /\ Reservation_validate(Reservation_from_dict(Head(data), now))
         THEN <<Reservation_from_dict(Head(data), now)>>
                  \o get_reservations_by_hotel_loop(Tail(data), hotel_id, now)
         ELSE get_reservations_by_hotel_loop(Tail(data), hotel_id, now)

\* get_reservations_by_hotel without the test of the status.
get_reservations_by_hotel_any_status(file, hotel_id, now) ==
    LET rd == read_json_file(file)
        sel == SelectSeq(rd.data, LAMBDA x : dict_get(x, "hotel_id") = hotel_id)
    IN  IF rd.exc # "none" THEN [exc |-> rd.exc, out |-> <<>>]
        ELSE IF has_non_object(rd.data) THEN [exc |-> "AttributeError", out |-> <<>>]
        ELSE [exc |-> "none",
              out |-> [i \in 1..Len(sel) |-> Reservation_from_dict(sel[i], now)]]

get_reservations_by_hotel(file, hotel_id, now) ==
    LET rd == read_json_file(file)
    IN  IF rd.exc # "none" THEN [exc |-> rd.exc, out |-> <<>>]
        ELSE IF has_non_object(rd.data) THEN [exc |-> "AttributeError", out |-> <<>>]
        ELSE [exc |-> "none",
              out |-> get_reservations_by_hotel_loop(rd.data, hotel_id, now)]

\* The loop of get_reservations_by_customer.
RECURSIVE get_reservations_by_customer_loop(_, _, _)
get_reservations_by_customer_loop(data, customer_id, now) ==
    IF data = <<>> THEN <<>>
    ELSE IF /\ dict_get(Head(data), "customer_id") = customer_id
            /\ Reservation_from_dict_exc(Head(data)) = "none"
            /\ Reservation_validate_exc(Reservation_from_dict(Head(data), now)) = "none"
            /\ Reservation_validate(Reservation_from_dict(Head(data), now))
         THEN <<Reservation_from_dict(Head(data), now)>>
                  \o get_reservations_by_customer_loop(Tail(data), customer_id, now)
         ELSE get_reservations_by_customer_loop(Tail(data), customer_id, now)

get_reservations_by_customer(file, customer_id, now) ==
    LET rd == read_json_file(file)
    IN  IF rd.exc # "none" THEN [exc |-> rd.exc, out |-> <<>>]
        ELSE IF has_non_object(rd.data) THEN [exc |-> "AttributeError", out |-> <<>>]
        ELSE [exc |-> "none",
              out |-> get_reservations_by_customer_loop(rd.data, customer_id, now)]

----------------------------------------------------------------------------
(* State *)

VARIABLES
    hotels_file,        \* output/hotels.json
    customers_file,     \* output/customers.json
    reservations_file,  \* output/reservations.json
    clock,              \* what datetime.now() returns
    inst,               \* the instance the caller holds: <<>> or <<entity>>
    call,               \* the last call: its name, key argument, entity argument
    ret,                \* what the last call returned or raised
    before,             \* the three files before the last call
    callers,            \* concurrent callers: where each is in its method
    last_writer         \* the concurrent caller whose write came last (0: none)

vars == <<hotels_file, customers_file, reservations_file, clock, inst, call, ret,
          before, callers, last_writer>>

Files == [hotels |-> hotels_file, customers |-> customers_file,
          reservations |-> reservations_file]

TotalRecords(fs) == Len(fs.hotels.data) + Len(fs.customers.data) + Len(fs.reservations.data)

\* The entities a caller constructs at time now.
HotelInputs(now) ==
    {Hotel(id, "Grand Plaza Hotel", "New York", 2, a, 150, now) :
        id \in HotelIds, a \in {1, 2}}
    \cup {Hotel("", "Grand Plaza Hotel", "New York", 2, 2, 150, now),
          Hotel("H1", "Grand Plaza Hotel", "New York", 2, 3, 150, now)}

CustomerInputs(now) ==
    {Customer(id, "John Smith", "john@example.com", "555-1001", now) :
        id \in CustomerIds}
    \cup {Customer("C1", "John Smith", "invalid-email", "555-1001", now)}

ReservationInputs(now) ==
    {Reservation(ids[1], ids[2], ids[3], "2026-03-01", "2026-03-05", st, now) :
        ids \in {<<"R1", "C1", "H1">>, <<"R1", "C2", "H2">>, <<"R2", "C1", "H1">>},
        st \in {"active", "cancelled"}}
    \cup {Reservation("R1", "C1", "H1", "2026-03-05", "2026-03-01", "active", now),
          Reservation("R1", "C1", "H1", "2026-03-01", "2026-03-05T00:00:00+00:00",
                      "active", now)}

\* The instance the caller holds, as an argument of its kind.
HeldHotel == IF inst # <<>> /\ "total_rooms" \in DOMAIN inst[1] THEN {inst[1]} ELSE {}
HeldCustomer == IF inst # <<>> /\ "email" \in DOMAIN inst[1] THEN {inst[1]} ELSE {}
HeldReservation == IF inst # <<>> /\ "check_in" \in DOMAIN inst[1] THEN {inst[1]} ELSE {}

\* What the storage may do with a write.
WorkingStorage == {"ok"}

\* The callers that use the engine at the same time.
Callers == {1, 2}

\* A caller outside any method.
Idle == [pc |-> "idle", op |-> "none", key |-> "", val |-> FALSE, pending |-> <<>>]

Init ==
    /\ hotels_file = EmptyFile
    /\ customers_file = EmptyFile
    /\ reservations_file = EmptyFile
    /\ clock = 0
    /\ inst = <<>>
    /\ call = [op |-> "init", key |-> "", ent |-> <<>>, io |-> "ok"]
    /\ ret = [exc |-> "none", val |-> TRUE, out |-> <<>>]
    /\ before = [hotels |-> EmptyFile, customers |-> EmptyFile,
                 reservations |-> EmptyFile]
    /\ callers = [c \in Callers |-> Idle]
    /\ last_writer = 0

\* The bookkeeping of a call: what was called, what came back, the files before.
Called(op, key, ent, io, exc, val, out) ==
    /\ call' = [op |-> op, key |-> key, ent |-> ent, io |-> io]
    /\ ret' = [exc |-> exc, val |-> val, out |-> out]
    /\ before' = Files

\* A write of the hotels that also drops the reservations of hotels no
\* longer stored.
WritesHotels_cascading(r) ==
    /\ hotels_file' = r.file
    /\ reservations_file' =
          [reservations_file EXCEPT !.data =
              SelectSeq(@, LAMBDA x : \E i \in 1..Len(r.file.data) :
                                         r.file.data[i].hotel_id = x.hotel_id)]
    /\ UNCHANGED <<customers_file, clock, inst, callers, last_writer>>
    /\ TotalRecords(Files') <= MaxRecords

\* A mutating call on one file with result r; the other two files stay.
WritesHotels(r) ==
    /\ hotels_file' = r.file
    /\ UNCHANGED <<customers_file, reservations_file, clock, inst, callers, last_writer>>
    /\ TotalRecords(Files') <= MaxRecords

WritesCustomers(r) ==
    /\ customers_file' = r.file
    /\ UNCHANGED <<hotels_file, reservations_file, clock, inst, callers, last_writer>>
    /\ TotalRecords(Files') <= MaxRecords

WritesReservations(r) ==
    /\ reservations_file' = r.file
    /\ UNCHANGED <<hotels_file, customers_file, clock, inst, callers, last_writer>>
    /\ TotalRecords(Files') <= MaxRecords

ReadsOnly == UNCHANGED <<hotels_file, customers_file, reservations_file, clock, inst, callers, last_writer>>

Tick ==
    /\ clock < MaxClock
    /\ clock' = clock + 1
    /\ UNCHANGED <<hotels_file, customers_file, reservations_file, inst, call, ret,
                   before, callers, last_writer>>

Call_create_hotel(Args, IO) ==
    \E hotel \in Args, io \in IO :
        LET r == create_hotel(hotels_file, hotel, io)
        IN  /\ WritesHotels(r)
            /\ Called("create_hotel", hotel.hotel_id, <<hotel>>, io, r.exc, r.val, <<>>)

Call_get_hotel ==
    \E hotel_id \in HotelIds :
        LET r == get_hotel(hotels_file, hotel_id, clock)
        IN  /\ ReadsOnly
            /\ Called("get_hotel", hotel_id, <<>>, "ok", r.exc, r.out # <<>>, r.out)

Call_get_all_hotels ==
    LET r == get_all_hotels(hotels_file, clock)
    IN  /\ ReadsOnly
        /\ Called("get_all_hotels", "", <<>>, "ok", r.exc, TRUE, r.out)

Call_update_hotel(Args, IO) ==
    \E hotel_id \in HotelIds, hotel \in Args, io \in IO :
        LET r == update_hotel(hotels_file, hotel_id, hotel, io)
        IN  /\ WritesHotels(r)
            /\ Called("update_hotel", hotel_id, <<hotel>>, io, r.exc, r.val, <<>>)

Call_delete_hotel(IO) ==
    \E hotel_id \in HotelIds, io \in IO :
        LET r == delete_hotel(hotels_file, hotel_id, io)
        IN  /\ WritesHotels(r)
            /\ Called("delete_hotel", hotel_id, <<>>, io, r.exc, r.val, <<>>)


Call_create_customer(Args, IO) ==
    \E customer \in Args, io \in IO :
        LET r == create_customer(customers_file, customer, io)
        IN  /\ WritesCustomers(r)
            /\ Called("create_customer", customer.customer_id, <<customer>>, io, r.exc, r.val, <<>>)

Call_get_customer ==
    \E customer_id \in CustomerIds :
        LET r == get_customer(customers_file, customer_id, clock)
        IN  /\ ReadsOnly
            /\ Called("get_customer", customer_id, <<>>, "ok", r.exc, r.out # <<>>, r.out)

Call_get_all_customers ==
    LET r == get_all_customers(customers_file, clock)
    IN  /\ ReadsOnly
        /\ Called("get_all_customers", "", <<>>, "ok", r.exc, TRUE, r.out)

Call_update_customer(Args, IO) ==
    \E customer_id \in CustomerIds, customer \in Args, io \in IO :
        LET r == update_customer(customers_file, customer_id, customer, io)
        IN  /\ WritesCustomers(r)
            /\ Called("update_customer", customer_id, <<customer>>, io, r.exc, r.val, <<>>)

Call_delete_customer(IO) ==
    \E customer_id \in CustomerIds, io \in IO :
        LET r == delete_customer(customers_file, customer_id, io)
        IN  /\ WritesCustomers(r)
            /\ Called("delete_customer", customer_id, <<>>, io, r.exc, r.val, <<>>)

Call_create_reservation(Args, IO) ==
    \E reservation \in Args, io \in IO :
        LET r == create_reservation(reservations_file, reservation, io)
        IN  /\ WritesReservations(r)
            /\ Called("create_reservation", reservation.reservation_id, <<reservation>>, io, r.exc, r.val, <<>>)

Call_get_reservation ==
    \E reservation_id \in ReservationIds :
        LET r == get_reservation(reservations_file, reservation_id, clock)
        IN  /\ ReadsOnly
            /\ Called("get_reservation", reservation_id, <<>>, "ok", r.exc, r.out # <<>>, r.out)

Call_get_all_reservations ==
    LET r == get_all_reservations(reservations_file, clock)
    IN  /\ ReadsOnly
        /\ Called("get_all_reservations", "", <<>>, "ok", r.exc, TRUE, r.out)

Call_update_reservation(Args, IO) ==
    \E reservation_id \in ReservationIds, reservation \in Args, io \in IO :
        LET r == update_reservation(reservations_file, reservation_id, reservation, io)
        IN  /\ WritesReservations(r)
            /\ Called("update_reservation", reservation_id, <<reservation>>, io, r.exc, r.val, <<>>)

Call_delete_reservation(IO) ==
    \E reservation_id \in ReservationIds, io \in IO :
        LET r == delete_reservation(reservations_file, reservation_id, io)
        IN  /\ WritesReservations(r)
            /\ Called("delete_reservation", reservation_id, <<>>, io, r.exc, r.val, <<>>)

Call_get_reservations_by_hotel ==
    \E hotel_id \in HotelIds :
        LET r == get_reservations_by_hotel(reservations_file, hotel_id, clock)
        IN  /\ ReadsOnly
            /\ Called("get_reservations_by_hotel", hotel_id, <<>>, "ok", r.exc, TRUE, r.out)

Call_get_reservations_by_customer ==
    \E customer_id \in CustomerIds :
        LET r == get_reservations_by_customer(reservations_file, customer_id, clock)
        IN  /\ ReadsOnly
            /\ Called("get_reservations_by_customer", customer_id, <<>>, "ok",
                      r.exc, TRUE, r.out)

\* clear_all_data: three writes in turn; a write that raises ends the call.
clear_all_data(fs, io1, io2, io3) ==
    LET w1 == write_json_file(fs.hotels, <<>>, io1)
        w2 == write_json_file(fs.customers, <<>>, io2)
        w3 == write_json_file(fs.reservations, <<>>, io3)
    IN  IF w1.exc # "none"
        THEN [exc |-> w1.exc, val |-> FALSE,
              files |-> [fs EXCEPT !.hotels = w1.file]]
        ELSE IF w2.exc # "none"
        THEN [exc |-> w2.exc, val |-> FALSE,
              files |-> [fs EXCEPT !.hotels = w1.file, !.customers = w2.file]]
        ELSE [exc |-> w3.exc, val |-> w1.val /\ w2.val /\ w3.val,
              files |-> [hotels |-> w1.file, customers |-> w2.file,
                         reservations |-> w3.file]]

Call_clear_all_data(IO) ==
    \E io1 \in IO :
      \E io2 \in IF io1 = "ok" THEN IO ELSE {"ok"} :
        \E io3 \in IF io1 = "ok" /\ io2 = "ok" THEN IO ELSE {"ok"} :
        LET r == clear_all_data(Files, io1, io2, io3)
        IN  /\ hotels_file' = r.files.hotels
            /\ customers_file' = r.files.customers
            /\ reservations_file' = r.files.reservations
            /\ UNCHANGED <<clock, inst, callers, last_writer>>
            /\ Called("clear_all_data", "", <<>>, io1, r.exc, r.val, <<>>)

\* The engine used by one caller on working storage.
Next ==
    \/ Call_create_hotel(HotelInputs(clock), WorkingStorage)
    \/ Call_get_hotel
    \/ Call_get_all_hotels
    \/ Call_update_hotel(HotelInputs(clock), WorkingStorage)
    \/ Call_delete_hotel(WorkingStorage)
    \/ Call_create_customer(CustomerInputs(clock), WorkingStorage)
    \/ Call_get_customer
    \/ Call_get_all_customers
    \/ Call_update_customer(CustomerInputs(clock), WorkingStorage)
    \/ Call_delete_customer(WorkingStorage)
    \/ Call_create_reservation(ReservationInputs(clock), WorkingStorage)
    \/ Call_get_reservation
    \/ Call_get_all_reservations
    \/ Call_update_reservation(ReservationInputs(clock), WorkingStorage)
    \/ Call_delete_reservation(WorkingStorage)
    \/ Call_get_reservations_by_hotel
    \/ Call_get_reservations_by_customer
    \/ Call_clear_all_data(WorkingStorage)

Spec == Init /\ [][Next]_vars

----------------------------------------------------------------------------
(* Vocabulary of the properties *)

CreateOps == {"create_hotel", "create_customer", "create_reservation"}
UpdateOps == {"update_hotel", "update_customer", "update_reservation"}
DeleteOps == {"delete_hotel", "delete_customer", "delete_reservation"}

\* The collection a call works on.
KindOf(op) ==
    CASE op \in {"create_hotel", "get_hotel", "get_all_hotels", "update_hotel",
                 "delete_hotel"} -> "hotels"
      [] op \in {"create_customer", "get_customer", "get_all_customers",
                 "update_customer", "delete_customer"} -> "customers"
      [] OTHER -> "reservations"

KeyField(kind) ==
    CASE kind = "hotels" -> "hotel_id"
      [] kind = "customers" -> "customer_id"
      [] OTHER -> "reservation_id"

IsValid(kind, e) ==
    CASE kind = "hotels" -> Hotel_validate(e)
      [] kind = "customers" -> Customer_validate(e)
      [] OTHER -> Reservation_validate(e)

Serialized(kind, e) ==
    CASE kind = "hotels" -> Hotel_to_dict(e)
      [] kind = "customers" -> Customer_to_dict(e)
      [] OTHER -> Reservation_to_dict(e)

\* The positions of the records of data stored under key.
Matches(data, kf, key) == {i \in 1..Len(data) : data[i][kf] = key}

FirstMatch(data, kf, key) ==
    CHOOSE i \in Matches(data, kf, key) : \A j \in Matches(data, kf, key) : i <= j

\* data without its i-th record.
Without(data, i) == SubSeq(data, 1, i - 1) \o SubSeq(data, i + 1, Len(data))

NoDuplicateKeys(data, kf) ==
    \A i, j \in 1..Len(data) : data[i][kf] = data[j][kf] => i = j

\* The file the last call worked on, before and after it.
Kind == KindOf(call.op)
DocBefore == before[Kind].data
DocAfter == Files[Kind].data
Arg == call.ent[1]

----------------------------------------------------------------------------
(* C1: reachable from three empty collections by create, update, delete and
   clear-all calls, no file holds two records with the same unique key. *)
C1_UniqueKeys ==
    /\ NoDuplicateKeys(hotels_file.data, "hotel_id")
    /\ NoDuplicateKeys(customers_file.data, "customer_id")
    /\ NoDuplicateKeys(reservations_file.data, "reservation_id")

(* C2: create(E) where a record with E's key is stored returns failure and
   leaves the document as it was: same records, same order, same count. *)
C2_DuplicateCreateFails ==
    (call.op \in CreateOps /\ Matches(DocBefore, KeyField(Kind), call.key) # {})
        => /\ ret.exc = "none"
           /\ ret.val = FALSE
           /\ Files = before

C2_Witness ==
    /\ call.op = "create_customer"
    /\ Customer_validate(Arg)
    /\ Matches(DocBefore, "customer_id", call.key) # {}
    /\ Len(DocBefore) = 2
    /\ ret.val = FALSE

(* C3: on working storage create(E) succeeds exactly when E.validate() is
   true and no stored record has E's key; on success the document is the one
   before with the serialization of E appended at the end; when E.validate()
   is false the document is unchanged. *)
C3_CreateAppends ==
    call.op \in CreateOps =>
        /\ ret.val = TRUE <=> /\ IsValid(Kind, Arg)
                              /\ Matches(DocBefore, KeyField(Kind), call.key) = {}
        /\ ret.val = TRUE => DocAfter = DocBefore \o <<Serialized(Kind, Arg)>>
        /\ ~IsValid(Kind, Arg) => DocAfter = DocBefore

C3_Witness ==
    /\ call.op = "create_reservation"
    /\ ret.val = TRUE
    /\ Len(DocBefore) = 1
    /\ DocAfter[2] = Reservation_to_dict(Arg)

(* C4: update(key, E) and delete(key) with no stored record under key return
   failure and leave the document unchanged. *)
C4_AbsentKeyFails ==
    (call.op \in UpdateOps \cup DeleteOps
        /\ Matches(DocBefore, KeyField(Kind), call.key) = {})
        => /\ ret.exc = "none"
           /\ ret.val = FALSE
           /\ Files = before

C4_Witness ==
    /\ call.op = "update_hotel"
    /\ Hotel_validate(Arg)
    /\ DocBefore # <<>>
    /\ Matches(DocBefore, "hotel_id", call.key) = {}
    /\ ret.val = FALSE

(* C5: update(key, E) with E valid and a record stored under key succeeds, and
   the document is the one before with the first record under key replaced, at
   its position, by the serialization of E; every other record and the count
   are unchanged.  This holds also when E's key differs from key: the record
   is then stored under E's key, not under key. *)
C5_UpdateReplacesInPlace ==
    (call.op \in UpdateOps /\ IsValid(Kind, Arg)
        /\ Matches(DocBefore, KeyField(Kind), call.key) # {})
        => LET i == FirstMatch(DocBefore, KeyField(Kind), call.key)
           IN  /\ ret.exc = "none"
               /\ ret.val = TRUE
               /\ Len(DocAfter) = Len(DocBefore)
               /\ DocAfter[i] = Serialized(Kind, Arg)
               /\ DocAfter[i][KeyField(Kind)] = Arg[KeyField(Kind)]
               /\ \A j \in 1..Len(DocBefore) : j # i => DocAfter[j] = DocBefore[j]

C5_Witness ==
    /\ call.op = "update_reservation"
    /\ ret.val = TRUE
    /\ Arg.reservation_id # call.key
    /\ Len(DocBefore) = 2
    /\ DocAfter[2].reservation_id = Arg.reservation_id
    /\ DocAfter[2].reservation_id # DocBefore[2].reservation_id

(* C6: a successful delete(key) removes the first record under key and only
   that one: the count drops by exactly 1 and the other records keep their
   content and order. *)
C6_DeleteRemovesOne ==
    (call.op \in DeleteOps /\ ret.val = TRUE)
        => /\ Len(DocAfter) = Len(DocBefore) - 1
           /\ DocAfter = Without(DocBefore, FirstMatch(DocBefore, KeyField(Kind), call.key))

----------------------------------------------------------------------------
(* The caller's instance: an entity returned by a read, kept in a variable and
   changed in memory by the entity's own methods. *)

ReadOps == {"get_hotel", "get_all_hotels", "get_customer", "get_all_customers",
            "get_reservation", "get_all_reservations",
            "get_reservations_by_hotel", "get_reservations_by_customer"}

\* hotel = persistence.get_hotel(...): the caller keeps an instance just read.
Hold ==
    /\ call.op \in ReadOps
    /\ ret.exc = "none"
    /\ \E i \in 1..Len(ret.out) : inst' = <<ret.out[i]>>
    /\ UNCHANGED <<hotels_file, customers_file, reservations_file, clock, call, ret,
                   before, callers, last_writer>>

\* A method of the held instance: only the instance changes.  The call
\* records the instance as it was before the method ran, followed by the
\* arguments of the method (args is <<>> for a method that takes none).
InMemory(op, key, args, exc, r) ==
    /\ inst' = <<r.self>>
    /\ UNCHANGED <<hotels_file, customers_file, reservations_file, clock,
                   callers, last_writer>>
    /\ Called(op, key, <<inst[1]>> \o args, "ok", exc, exc = "none" /\ r.val, <<>>)

\* hotel.reserve_room() that also saves the hotel under its key.
Call_Hotel_reserve_room_saving ==
    /\ HeldHotel # {}
    /\ LET r == Hotel_reserve_room(inst[1])
           w == update_hotel(hotels_file, inst[1].hotel_id, r.self, "ok")
       IN  /\ inst' = <<r.self>>
           /\ hotels_file' = w.file
           /\ UNCHANGED <<customers_file, reservations_file, clock, callers, last_writer>>
           /\ Called("Hotel.reserve_room", inst[1].hotel_id, <<>>, "ok", "none", r.val, <<>>)

Call_Hotel_reserve_room ==
    /\ HeldHotel # {}
    /\ InMemory("Hotel.reserve_room", inst[1].hotel_id, <<>>, "none",
                Hotel_reserve_room(inst[1]))

Call_Hotel_cancel_reservation ==
    /\ HeldHotel # {}
    /\ InMemory("Hotel.cancel_reservation", inst[1].hotel_id, <<>>, "none",
                Hotel_cancel_reservation(inst[1]))

\* Hotel.update(name, location, total_rooms, price_per_room) with arguments
\* drawn from Args: each omitted (<<>>) or supplied (<<v>>).
Call_Hotel_update(Args) ==
    /\ HeldHotel # {}
    /\ \E a \in Args :
           InMemory("Hotel.update", inst[1].hotel_id, <<a>>,
                    Hotel_update_exc(inst[1], a[1], a[2], a[3], a[4]),
                    Hotel_update(inst[1], a[1], a[2], a[3], a[4]))

\* Customer.update(name, email, phone) with arguments drawn from Args.
Call_Customer_update(Args) ==
    /\ HeldCustomer # {}
    /\ \E a \in Args :
           InMemory("Customer.update", inst[1].customer_id, <<a>>, "none",
                    Customer_update(inst[1], a[1], a[2], a[3]))

\* The arguments the caller of the read-change-write scenario uses.
SomeHotelUpdates == {<<<<"">>, <<>>, <<3>>, <<>>>>}
SomeCustomerUpdates == {<<<<"Maria Garcia">>, <<>>, <<>>>>}

Call_Reservation_cancel ==
    /\ HeldReservation # {}
    /\ InMemory("Reservation.cancel", inst[1].reservation_id, <<>>, "none",
                Reservation_cancel(inst[1]))

\* The valid entities the caller of this scenario stores: one per key.
StoredHotels(now) ==
    {Hotel(id, "Grand Plaza Hotel", "New York", 2, 2, 150, now) : id \in HotelIds}
StoredCustomers(now) ==
    {Customer(id, "John Smith", "john@example.com", "555-1001", now) : id \in CustomerIds}
StoredReservations(now) ==
    {Reservation(id, "C1", "H1", "2026-03-01", "2026-03-05", "active", now) :
        id \in ReservationIds}

\* One caller that stores entities, reads them, changes the instances read in
\* memory and passes them back to update.
NextDetached ==
    \/ Call_create_hotel(StoredHotels(clock), WorkingStorage)
    \/ Call_create_customer(StoredCustomers(clock), WorkingStorage)
    \/ Call_create_reservation(StoredReservations(clock), WorkingStorage)
    \/ Call_get_hotel
    \/ Call_get_all_hotels
    \/ Call_get_customer
    \/ Call_get_all_customers
    \/ Call_get_reservation
    \/ Call_get_all_reservations
    \/ Hold
    \/ Call_Hotel_reserve_room
    \/ Call_Hotel_cancel_reservation
    \/ Call_Hotel_update(SomeHotelUpdates)
    \/ Call_Customer_update(SomeCustomerUpdates)
    \/ Call_Reservation_cancel
    \/ Call_update_hotel(HeldHotel, WorkingStorage)
    \/ Call_update_customer(HeldCustomer, WorkingStorage)
    \/ Call_update_reservation(HeldReservation, WorkingStorage)

SpecDetached == Init /\ [][NextDetached]_vars

----------------------------------------------------------------------------
(* The engine on storage that can fail, with files that something other than
   the engine has written, removed or protected. *)

StorageOutcomes == {"ok", "open_fails", "write_fails"}

\* What a file can be when the engine did not write it: absent, not openable,
\* not JSON, or JSON that is not a list.
DamagedConds == {"missing", "unreadable", "invalid_json", "not_array"}

\* Elements of a JSON list that are no serialized entity: a number, and an
\* object without its "name" key.
ForeignElements(kind) ==
    LET d == CASE kind = "hotels" ->
                     Hotel_to_dict(Hotel("H1", "Grand Plaza Hotel", "New York", 2, 2, 150, 0))
               [] kind = "customers" ->
                     Customer_to_dict(Customer("C1", "John Smith", "john@example.com",
                                               "555-1001", 0))
               [] OTHER ->
                     Reservation_to_dict(Reservation("R1", "C1", "H1", "2026-03-01",
                                                     "2026-03-05", "active", 0))
    IN  {[d EXCEPT !.shape = "number"], [d EXCEPT !.absent = {"name"}]}

\* The file after something else has replaced it or added an element to it.
Damaged(file, kind) ==
    {[cond |-> c, data |-> <<>>] : c \in DamagedConds}
    \cup {[cond |-> "ok", data |-> Append(file.data, x)] : x \in ForeignElements(kind)}

\* The files that are not a JSON list of complete serialized entities.
Unusable(fs) ==
    {k \in DOMAIN fs :
        \/ fs[k].cond # "ok"
        \/ \E i \in 1..Len(fs[k].data) :
              fs[k].data[i].shape # "object" \/ fs[k].data[i].absent # {}}

Damage ==
    /\ Cardinality(Unusable(Files)) < MaxDamaged
    /\ \E kind \in {"hotels", "customers", "reservations"} :
          \E f \in Damaged(Files[kind], kind) :
              /\ hotels_file' = IF kind = "hotels" THEN f ELSE hotels_file
              /\ customers_file' = IF kind = "customers" THEN f ELSE customers_file
              /\ reservations_file' = IF kind = "reservations" THEN f ELSE reservations_file
    /\ TotalRecords(Files') <= MaxRecords
    /\ UNCHANGED <<clock, inst, callers, last_writer>>
    /\ Called("(damage)", "", <<>>, "ok", "none", TRUE, <<>>)

\* A reservation whose dates parse, one without and one with a UTC offset.
MixedOffsetReservations(now) ==
    {Reservation("R1", "C1", "H1", "2026-03-01", "2026-03-05T00:00:00+00:00",
                 "active", now)}

\* The entities the calls on failing storage pass: one valid entity of each
\* kind, and the reservation with mixed dates.
FirstHotel(now) == {h \in StoredHotels(now) : h.hotel_id = "H1"}
FirstCustomer(now) == {c \in StoredCustomers(now) : c.customer_id = "C1"}
FirstReservation(now) == {r \in StoredReservations(now) : r.reservation_id = "R1"}

NextStorage ==
    \/ Damage
    \/ Call_create_hotel(FirstHotel(clock), StorageOutcomes)
    \/ Call_get_hotel
    \/ Call_get_all_hotels
    \/ Call_update_hotel(FirstHotel(clock), StorageOutcomes)
    \/ Call_delete_hotel(StorageOutcomes)
    \/ Call_create_customer(FirstCustomer(clock), StorageOutcomes)
    \/ Call_get_customer
    \/ Call_get_all_customers
    \/ Call_update_customer(FirstCustomer(clock), StorageOutcomes)
    \/ Call_delete_customer(StorageOutcomes)
    \/ Call_create_reservation(FirstReservation(clock), StorageOutcomes)
    \/ Call_get_reservation
    \/ Call_get_all_reservations
    \/ Call_update_reservation(FirstReservation(clock) \cup MixedOffsetReservations(clock),
                               StorageOutcomes)
    \/ Call_delete_reservation(StorageOutcomes)
    \/ Call_get_reservations_by_hotel
    \/ Call_get_reservations_by_customer
    \/ Call_clear_all_data(StorageOutcomes)

SpecStorage == Init /\ [][NextStorage]_vars

EngineOps == CreateOps \cup ReadOps \cup UpdateOps \cup DeleteOps \cup {"clear_all_data"}

(* C8: whatever the condition of the files and whatever the storage does with
   a write, every engine operation returns its normal result: no exception
   leaves the call. *)
C8_NoExceptionPropagates ==
    call.op \in EngineOps => ret.exc = "none"

\* What a file is when its text cannot be decoded or decodes to no list.
Undecodable == {"missing", "invalid_json", "not_array"}

(* C9: on a file that is missing, is not JSON or is JSON but no list, every
   read returns what it returns on an empty collection (none, or an empty
   list), update and delete return failure and write nothing, and create of a
   valid entity on working storage succeeds and leaves a file holding exactly
   that entity. *)
C9_UndecodableIsEmpty ==
    (call.op \in EngineOps \ {"clear_all_data"} /\ before[Kind].cond \in Undecodable)
        => /\ call.op \in ReadOps => ret.exc = "none" /\ ret.out = <<>>
           /\ call.op \in UpdateOps \cup DeleteOps
                 => ret.exc = "none" /\ ret.val = FALSE /\ Files = before
           /\ (call.op \in CreateOps /\ call.io = "ok" /\ IsValid(Kind, Arg))
                 => /\ ret.exc = "none"
                    /\ ret.val = TRUE
                    /\ Files[Kind] = [cond |-> "ok",
                                      data |-> <<Serialized(Kind, Arg)>>]

----------------------------------------------------------------------------
(* C10: an instance returned by read-by-key or read-all is a detached copy:
   after any in-memory operation on it (Hotel.reserve_room,
   Hotel.cancel_reservation, Hotel.update, Customer.update,
   Reservation.cancel) the three documents are unchanged, and a fresh
   read-by-key of its key returns the stored field values, not the
   instance's. *)
MemoryOps == {"Hotel.reserve_room", "Hotel.cancel_reservation", "Hotel.update",
              "Customer.update", "Reservation.cancel"}

\* The collection of the held instance, its key, and a fresh read of that key.
HeldKind ==
    IF HeldHotel # {} THEN "hotels"
    ELSE IF HeldCustomer # {} THEN "customers" ELSE "reservations"

HeldKey == inst[1][KeyField(HeldKind)]

FreshRead ==
    CASE HeldKind = "hotels" -> get_hotel(hotels_file, HeldKey, clock)
      [] HeldKind = "customers" -> get_customer(customers_file, HeldKey, clock)
      [] OTHER -> get_reservation(reservations_file, HeldKey, clock)

\* The record stored under the held instance's key.
StoredUnderHeldKey ==
    LET data == Files[HeldKind].data
    IN  data[FirstMatch(data, KeyField(HeldKind), HeldKey)]

----------------------------------------------------------------------------
(* Two callers of the engine on hotels.json.  A mutating method is two steps:
   it reads the file and builds the new list in memory, and later it rewrites
   the file with that list.  Nothing orders the steps of one caller with
   those of the other. *)

\* First step of a method whose result on working storage is r: a call that
\* fails returns without writing, another keeps the list it is about to write.
Race_read(c, op, key, r) ==
    /\ callers[c].pc \in {"idle", "done"}
    /\ r.exc = "none"
    /\ Len(r.file.data) <= MaxRecords
    /\ callers' = [callers EXCEPT ![c] =
                      IF r.val
                      THEN [pc |-> "loaded", op |-> op, key |-> key, val |-> FALSE,
                            pending |-> r.file.data]
                      ELSE [pc |-> "done", op |-> op, key |-> key, val |-> FALSE,
                            pending |-> <<>>]]
    /\ UNCHANGED <<hotels_file, customers_file, reservations_file, clock, inst,
                   call, ret, before, last_writer>>

Race_create_hotel(c) ==
    \E hotel \in StoredHotels(clock) :
        Race_read(c, "create_hotel", hotel.hotel_id, create_hotel(hotels_file, hotel, "ok"))

Race_update_hotel(c) ==
    \E hotel_id \in HotelIds, hotel \in StoredHotels(clock) :
        Race_read(c, "update_hotel", hotel_id,
                  update_hotel(hotels_file, hotel_id, hotel, "ok"))

Race_delete_hotel(c) ==
    \E hotel_id \in HotelIds :
        Race_read(c, "delete_hotel", hotel_id, delete_hotel(hotels_file, hotel_id, "ok"))

\* data with the records of pending it does not hold added at its end.
RECURSIVE merged(_, _)
merged(data, pending) ==
    IF pending = <<>> THEN data
    ELSE merged(IF \E i \in 1..Len(data) : data[i] = Head(pending)
                THEN data ELSE Append(data, Head(pending)),
                Tail(pending))

Race_write_json_file_merging(c) ==
    /\ callers[c].pc = "loaded"
    /\ Len(merged(hotels_file.data, callers[c].pending)) <= MaxRecords
    /\ hotels_file' = write_json_file(hotels_file,
                                      merged(hotels_file.data, callers[c].pending),
                                      "ok").file
    /\ callers' = [callers EXCEPT ![c].pc = "done", ![c].val = TRUE]
    /\ last_writer' = c
    /\ UNCHANGED <<customers_file, reservations_file, clock, inst, call, ret, before>>

\* Second step: return self._write_json_file(self.hotels_file, data)
Race_write_json_file(c) ==
    /\ callers[c].pc = "loaded"
    /\ hotels_file' = write_json_file(hotels_file, callers[c].pending, "ok").file
    /\ callers' = [callers EXCEPT ![c].pc = "done", ![c].val = TRUE]
    /\ last_writer' = c
    /\ UNCHANGED <<customers_file, reservations_file, clock, inst, call, ret, before>>

NextRace ==
    \E c \in Callers :
        \/ Race_create_hotel(c)
        \/ Race_update_hotel(c)
        \/ Race_delete_hotel(c)
        \/ Race_write_json_file(c)

SpecRace == Init /\ [][NextRace]_vars

(* C7: with two callers whose mutating calls on one collection are each a read
   step and a later write step, the file is always exactly the list the last
   writer wrote, whatever the other caller wrote since the last writer read;
   and two creates of distinct new valid keys can both return success while
   the file holds the second writer's record and not the first writer's. *)
C7_LastWriterWins ==
    (last_writer # 0 /\ callers[last_writer].pc = "done" /\ callers[last_writer].val)
        => hotels_file = [cond |-> "ok", data |-> callers[last_writer].pending]

C7_Witness ==
    \E c \in Callers, d \in Callers :
        /\ c # d
        /\ last_writer = d
        /\ callers[c].op = "create_hotel" /\ callers[c].pc = "done" /\ callers[c].val
        /\ callers[d].op = "create_hotel" /\ callers[d].pc = "done" /\ callers[d].val
        /\ callers[c].key # callers[d].key
        /\ Matches(hotels_file.data, "hotel_id", callers[d].key) # {}
        /\ Matches(hotels_file.data, "hotel_id", callers[c].key) = {}

----------------------------------------------------------------------------
(* Entities in memory: construction and the serialization round trip. *)

\* e = Hotel(...) / Customer(...) / Reservation(...): the caller builds an
\* instance; the constructor stamps created_date with the clock.
New(op, e) ==
    /\ inst' = <<e>>
    /\ UNCHANGED <<hotels_file, customers_file, reservations_file, clock,
                   callers, last_writer>>
    /\ Called(op, "", <<>>, "ok", "none", TRUE, <<>>)

New_Hotel(Args) == \E e \in Args : New("Hotel", e)
New_Customer(Args) == \E e \in Args : New("Customer", e)
New_Reservation(Args) == \E e \in Args : New("Reservation", e)

\* cls.from_dict(e.to_dict()) of the held instance e; the call records e and
\* returns the instance built.
RoundTrip(op, e, exc, out) ==
    /\ UNCHANGED <<hotels_file, customers_file, reservations_file, clock, inst,
                   callers, last_writer>>
    /\ Called(op, "", <<e>>, "ok", exc, TRUE, IF exc = "none" THEN <<out>> ELSE <<>>)

Call_Hotel_from_dict ==
    /\ HeldHotel # {}
    /\ RoundTrip("Hotel.from_dict", inst[1], Hotel_from_dict_exc(Hotel_to_dict(inst[1])),
                 Hotel_from_dict(Hotel_to_dict(inst[1]), clock))

Call_Customer_from_dict ==
    /\ HeldCustomer # {}
    /\ RoundTrip("Customer.from_dict", inst[1],
                 Customer_from_dict_exc(Customer_to_dict(inst[1])),
                 Customer_from_dict(Customer_to_dict(inst[1]), clock))

Call_Reservation_from_dict ==
    /\ HeldReservation # {}
    /\ RoundTrip("Reservation.from_dict", inst[1],
                 Reservation_from_dict_exc(Reservation_to_dict(inst[1])),
                 Reservation_from_dict(Reservation_to_dict(inst[1]), clock))

\* e.validate() of the held instance e: it assigns nothing; the call records
\* e, the exception that leaves it and the boolean returned.
Validate(op, exc, val) ==
    /\ inst' = inst
    /\ UNCHANGED <<hotels_file, customers_file, reservations_file, clock,
                   callers, last_writer>>
    /\ Called(op, "", <<inst[1]>>, "ok", exc, exc = "none" /\ val, <<>>)

Call_Hotel_validate ==
    /\ HeldHotel # {}
    /\ Validate("Hotel.validate", "none", Hotel_validate(inst[1]))

Call_Customer_validate ==
    /\ HeldCustomer # {}
    /\ Validate("Customer.validate", "none", Customer_validate(inst[1]))

Call_Reservation_validate ==
    /\ HeldReservation # {}
    /\ Validate("Reservation.validate", Reservation_validate_exc(inst[1]),
                Reservation_validate(inst[1]))

\* Instances with any field values: right ones, empty ones, out-of-range
\* ones and ones of the wrong type.
AnyHotels(now) ==
    {Hotel(id, name, location, total_rooms, rooms_available, price_per_room, now) :
        id \in {"H1", "", None, Five},
        name \in {"Grand Plaza Hotel", "", Five},
        location \in {"New York", "", None},
        total_rooms \in {2, 0, 0 - 1, NotANumber},
        rooms_available \in {0, 2, 3, 0 - 1, NotANumber},
        price_per_room \in {150, 0, 0 - 1, NotANumber}}

AnyCustomers(now) ==
    {Customer(id, name, email, phone, now) :
        id \in {"C1", "", None},
        name \in {"John Smith", "", Five},
        email \in {"john@example.com", "invalid-email", "", Five},
        phone \in {"555-1001", "", None}}

DateStrings == {"2026-03-01", "2026-03-05", "2026-03-05T00:00:00+00:00",
                "not-a-date", "", None}

AnyReservations(now) ==
    {Reservation(id, customer_id, hotel_id, check_in, check_out, status, now) :
        id \in {"R1", ""},
        customer_id \in {"C1", None},
        hotel_id \in {"H1", Five},
        check_in \in DateStrings,
        check_out \in DateStrings,
        status \in {"active", "cancelled", "pending", None}}

\* A caller that builds one instance, validates it and takes it through
\* to_dict and from_dict, while time passes.
NextEntities ==
    \/ Tick
    \/ inst = <<>> /\ New_Hotel(AnyHotels(clock))
    \/ inst = <<>> /\ New_Customer(AnyCustomers(clock))
    \/ inst = <<>> /\ New_Reservation(AnyReservations(clock))
    \/ Call_Hotel_validate
    \/ Call_Customer_validate
    \/ Call_Reservation_validate
    \/ Call_Hotel_from_dict
    \/ Call_Customer_from_dict
    \/ Call_Reservation_from_dict

SpecEntities == Init /\ [][NextEntities]_vars

FromDictOps == {"Hotel.from_dict", "Customer.from_dict", "Reservation.from_dict"}

\* The kind of the instance a method of an entity was called on.
ArgKind ==
    CASE call.op \in {"Hotel.from_dict", "Hotel.validate"} -> "hotels"
      [] call.op \in {"Customer.from_dict", "Customer.validate"} -> "customers"
      [] OTHER -> "reservations"

\* validate() of the instance returns True.
ArgIsValid ==
    CASE ArgKind = "hotels" -> Hotel_validate(Arg)
      [] ArgKind = "customers" -> Customer_validate(Arg)
      [] OTHER -> Reservation_validate_exc(Arg) = "none" /\ Reservation_validate(Arg)

(* C11: for a valid entity E of each kind, from_dict(to_dict(E)) has the key
   of E and every field, created_date included, equal to that of E. *)
C11_RoundTripEqual ==
    (call.op \in FromDictOps /\ ArgIsValid)
        => ret.exc = "none" /\ ret.out = <<Arg>>

----------------------------------------------------------------------------
(* A caller that stores an entity, reads it back later and passes the
   instance read to update, while time passes. *)
NextClock ==
    \/ Tick
    \/ Call_create_hotel(FirstHotel(clock), WorkingStorage)
    \/ Call_create_customer(FirstCustomer(clock), WorkingStorage)
    \/ Call_create_reservation(FirstReservation(clock), WorkingStorage)
    \/ Call_get_hotel
    \/ Call_get_customer
    \/ Call_get_reservation
    \/ Hold
    \/ Call_update_hotel(HeldHotel, WorkingStorage)
    \/ Call_update_customer(HeldCustomer, WorkingStorage)
    \/ Call_update_reservation(HeldReservation, WorkingStorage)

SpecClock == Init /\ [][NextClock]_vars

GetOps == {"get_hotel", "get_customer", "get_reservation"}

(* C12: created_date is set once, at creation: a read-by-key of a stored
   record returns an instance with the stored created_date, and an update
   with an instance read earlier leaves the stored created_date of the record
   as it was. *)
C12_CreatedDateImmutable ==
    /\ (call.op \in GetOps /\ ret.out # <<>>)
          => ret.out[1].created_date
                = DocBefore[FirstMatch(DocBefore, KeyField(Kind), call.key)].created_date
    /\ (call.op \in UpdateOps /\ ret.val)
          => LET i == FirstMatch(DocBefore, KeyField(Kind), call.key)
             IN  DocAfter[i].created_date = DocBefore[i].created_date

----------------------------------------------------------------------------
\* The valid reservations among the inputs of the engine.
ValidReservations(now) ==
    {e \in ReservationInputs(now) :
        Reservation_validate_exc(e) = "none" /\ Reservation_validate(e)}

(* A caller that books, reads a booking, cancels the instance read, writes it
   back, deletes, and asks for the bookings of a hotel or of a customer. *)
ActiveReservations(now) == {e \in ValidReservations(now) : e.status = "active"}

NextBookings ==
    \/ Call_create_reservation(ActiveReservations(clock), WorkingStorage)
    \/ Call_get_reservation
    \/ Hold
    \/ Call_Reservation_cancel
    \/ Call_update_reservation(HeldReservation, WorkingStorage)
    \/ Call_delete_reservation(WorkingStorage)
    \/ Call_get_reservations_by_hotel
    \/ Call_get_reservations_by_customer

SpecBookings == Init /\ [][NextBookings]_vars

\* The stored reservations a filtered read is to return, in file order.
ActiveOfHotel(data, hotel_id) ==
    SelectSeq(data, LAMBDA x : x.hotel_id = hotel_id /\ x.status = "active")
AllOfCustomer(data, customer_id) ==
    SelectSeq(data, LAMBDA x : x.customer_id = customer_id)

\* The instances out are the records stored, field by field; created_date is
\* compared in C11 and C12.
SameReservations(out, stored) ==
    /\ Len(out) = Len(stored)
    /\ \A i \in 1..Len(out) :
          [Reservation_to_dict(out[i]) EXCEPT !.created_date = stored[i].created_date]
              = stored[i]

(* C13: on every reservations file the engine produces,
   get_reservations_by_hotel(h) returns exactly the stored reservations of
   hotel h whose status is active, and get_reservations_by_customer(c) exactly
   the stored reservations of customer c whatever their status. *)
C13_FilteredReads ==
    /\ call.op = "get_reservations_by_hotel"
          => /\ ret.exc = "none"
             /\ SameReservations(ret.out, ActiveOfHotel(reservations_file.data, call.key))
    /\ call.op = "get_reservations_by_customer"
          => /\ ret.exc = "none"
             /\ SameReservations(ret.out, AllOfCustomer(reservations_file.data, call.key))

\* Two reservations of H1 stored, one cancelled through read, cancel and
\* update: the read by hotel returns the other one only.
C13_Witness ==
    /\ call.op = "get_reservations_by_hotel"
    /\ call.key = "H1"
    /\ Len(reservations_file.data) = 2
    /\ \A i \in 1..2 : reservations_file.data[i].hotel_id = "H1"
    /\ reservations_file.data[1].status = "cancelled"
    /\ reservations_file.data[2].status = "active"
    /\ Len(ret.out) = 1
    /\ ret.out[1].reservation_id = reservations_file.data[2].reservation_id

----------------------------------------------------------------------------
(* C14: the three collections are independent and no reference is checked:
   every create, update and delete leaves the two files of the other kinds
   as they were (delete_hotel and delete_customer leave the reservations, a
   booking leaves the hotel's rooms_available), and create_reservation of a
   valid reservation under a new reservation_id succeeds whatever hotels and
   customers are stored. *)
C14_CollectionsIndependent ==
    /\ call.op \in CreateOps \cup UpdateOps \cup DeleteOps
          => \A k \in DOMAIN Files \ {Kind} : Files[k] = before[k]
    /\ (call.op = "create_reservation" /\ IsValid(Kind, Arg)
           /\ Matches(DocBefore, "reservation_id", call.key) = {})
          => ret.exc = "none" /\ ret.val

\* A hotel is deleted and a reservation that names it stays.
C14_Witness ==
    /\ call.op = "delete_hotel"
    /\ ret.val
    /\ Matches(hotels_file.data, "hotel_id", call.key) = {}
    /\ Matches(reservations_file.data, "hotel_id", call.key) # {}

----------------------------------------------------------------------------
\* A non-empty string; an integer; a number.
NonEmptyString(value) == value \notin {"", None, Five}
AnInteger(value) == value # NotANumber
ANumber(value) == value # NotANumber

(* C15: for a Hotel with any field values, validate() is true exactly when
   hotel_id, name and location are non-empty strings, total_rooms is an
   integer > 0, rooms_available an integer with
   0 <= rooms_available <= total_rooms, and price_per_room a number >= 0. *)
C15_HotelValidateIff ==
    call.op = "Hotel.validate"
        => /\ ret.exc = "none"
           /\ ret.val <=>
                 /\ NonEmptyString(Arg.hotel_id)
                 /\ NonEmptyString(Arg.name)
                 /\ NonEmptyString(Arg.location)
                 /\ AnInteger(Arg.total_rooms) /\ Arg.total_rooms > 0
                 /\ AnInteger(Arg.rooms_available)
                 /\ 0 <= Arg.rooms_available /\ Arg.rooms_available <= Arg.total_rooms
                 /\ ANumber(Arg.price_per_room) /\ Arg.price_per_room >= 0

\* validate() has refused a hotel for its rooms_available alone.
C15_Witness ==
    /\ call.op = "Hotel.validate"
    /\ ~ret.val
    /\ Arg.total_rooms = 2
    /\ Arg.rooms_available = 3
    /\ Hotel_validate([Arg EXCEPT !.rooms_available = 2])

ValidateOps == {"Hotel.validate", "Customer.validate", "Reservation.validate"}

(* C16: for an entity of each kind with any field values, validate() returns
   a boolean, raises no exception and leaves every field as it was. *)
C16_ValidateNeverRaises ==
    call.op \in ValidateOps => ret.exc = "none" /\ inst = <<Arg>>

----------------------------------------------------------------------------
(* A caller that builds a valid hotel and then calls reserve_room,
   cancel_reservation and update on it, in any order and with any
   arguments. *)
RoomHotels(now) ==
    {Hotel("H1", "Grand Plaza Hotel", "New York", total_rooms, rooms_available, 150, now) :
        total_rooms \in 1..MaxRooms, rooms_available \in 0..MaxRooms}

ValidRoomHotels(now) == {h \in RoomHotels(now) : Hotel_validate(h)}

\* Arguments of Hotel.update: each omitted or supplied; names that are right
\* or empty, room counts from negative to above the bound or no number,
\* prices that are right, negative or no number.
AnyHotelUpdates ==
    {<<name, location, total_rooms, price_per_room>> :
        name \in {<<>>, <<"">>},
        location \in {<<>>, <<"Boston">>},
        total_rooms \in {<<>>, <<NotANumber>>} \cup {<<n>> : n \in (0 - 1)..(MaxRooms + 1)},
        price_per_room \in {<<>>, <<0 - 1>>, <<NotANumber>>}}

NextRooms ==
    \/ inst = <<>> /\ New_Hotel(ValidRoomHotels(clock))
    \/ Call_Hotel_reserve_room
    \/ Call_Hotel_cancel_reservation
    \/ Call_Hotel_update(AnyHotelUpdates)

SpecRooms == Init /\ [][NextRooms]_vars

(* C17: from a hotel for which validate() is true, after any sequence of
   reserve_room, cancel_reservation and update calls, whatever their
   arguments and results, 0 <= rooms_available <= total_rooms. *)
C17_RoomsWithinTotal ==
    HeldHotel # {}
        => 0 <= inst[1].rooms_available /\ inst[1].rooms_available <= inst[1].total_rooms

\* update has lowered total_rooms to the number of occupied rooms.
C17_Witness ==
    /\ call.op = "Hotel.update"
    /\ ret.val
    /\ Arg.total_rooms = 2 /\ Arg.rooms_available = 1
    /\ inst[1].total_rooms = 1 /\ inst[1].rooms_available = 0

(* C18: reserve_room() returns success exactly when rooms_available > 0
   before the call; on success rooms_available is one less and every other
   field is as before; on failure every field is as before. *)
C18_ReserveRoom ==
    call.op = "Hotel.reserve_room"
        => /\ ret.exc = "none"
           /\ ret.val <=> Arg.rooms_available > 0
           /\ ret.val => inst = <<[Arg EXCEPT !.rooms_available = Arg.rooms_available - 1]>>
           /\ ~ret.val => inst = <<Arg>>

\* The last room is reserved, and the next call fails.
C18_Witness ==
    /\ call.op = "Hotel.reserve_room"
    /\ ~ret.val
    /\ Arg.rooms_available = 0
    /\ Arg.total_rooms > 0
    /\ inst = <<Arg>>

(* C19: cancel_reservation() returns success exactly when
   rooms_available < total_rooms before the call; on success rooms_available
   is one more and every other field is as before; on failure every field is
   as before. *)
C19_CancelReservation ==
    call.op = "Hotel.cancel_reservation"
        => /\ ret.exc = "none"
           /\ ret.val <=> Arg.rooms_available < Arg.total_rooms
           /\ ret.val => inst = <<[Arg EXCEPT !.rooms_available = Arg.rooms_available + 1]>>
           /\ ~ret.val => inst = <<Arg>>

\* Every room is available and the call fails.
C19_Witness ==
    /\ call.op = "Hotel.cancel_reservation"
    /\ ~ret.val
    /\ Arg.rooms_available = Arg.total_rooms
    /\ Arg.total_rooms > 0
    /\ inst = <<Arg>>

----------------------------------------------------------------------------
(* A caller that builds a valid hotel and calls one method again and again
   until it fails:  while hotel.reserve_room(): pass  and the same with
   cancel_reservation.  A loop starts on a hotel just built or when the other
   loop has ended; the call records the hotel the loop started on and ret.out
   the results of the calls of the loop so far. *)
RepeatReserve == "Hotel.reserve_room (repeated)"
RepeatCancel == "Hotel.cancel_reservation (repeated)"

\* The loop op goes on, or may start.
InLoop(op) == call.op = op /\ ret.val
MayStart(op) == call.op = "Hotel" \/ (call.op \in {RepeatReserve, RepeatCancel} \ {op} /\ ~ret.val)

Repeat(op, r) ==
    /\ inst' = <<r.self>>
    /\ UNCHANGED <<hotels_file, customers_file, reservations_file, clock,
                   callers, last_writer>>
    /\ Called(op, inst[1].hotel_id, IF InLoop(op) THEN call.ent ELSE <<inst[1]>>, "ok",
              "none", r.val, Append(IF InLoop(op) THEN ret.out ELSE <<>>, r.val))

\* The loop of reserve_room that stops with one room left.
Repeat_reserve_room_keeping_one ==
    /\ HeldHotel # {}
    /\ InLoop(RepeatReserve) \/ MayStart(RepeatReserve)
    /\ Repeat(RepeatReserve,
              IF inst[1].rooms_available > 1 THEN Hotel_reserve_room(inst[1])
              ELSE [val |-> FALSE, self |-> inst[1]])

Repeat_reserve_room ==
    /\ HeldHotel # {}
    /\ InLoop(RepeatReserve) \/ MayStart(RepeatReserve)
    /\ Repeat(RepeatReserve, Hotel_reserve_room(inst[1]))

Repeat_cancel_reservation ==
    /\ HeldHotel # {}
    /\ InLoop(RepeatCancel) \/ MayStart(RepeatCancel)
    /\ Repeat(RepeatCancel, Hotel_cancel_reservation(inst[1]))

\* The valid hotels the loops start on.
LoopHotels(now) ==
    {Hotel(id, "Grand Plaza Hotel", "New York", total_rooms, rooms_available,
           price_per_room, now) :
        id \in HotelIds, total_rooms \in 1..(MaxRooms + 1),
        rooms_available \in 0..(MaxRooms + 1), price_per_room \in {0, 150}}

NextRepeat ==
    \/ inst = <<>> /\ New_Hotel({h \in LoopHotels(clock) : Hotel_validate(h)})
    \/ Repeat_reserve_room
    \/ Repeat_cancel_reservation

\* The caller's loops keep running: a call that can be made is made.
SpecRepeat ==
    /\ Init
    /\ [][NextRepeat]_vars
    /\ WF_vars(Repeat_reserve_room)
    /\ WF_vars(Repeat_cancel_reservation)

\* After n calls of a loop that can succeed k times: the first k results are
\* True and the next one False, which ends the loop; left rooms are counted
\* by the successes.
LoopResults(k) ==
    /\ Len(ret.out) <= k + 1
    /\ \A i \in 1..Len(ret.out) : ret.out[i] <=> i <= k
    /\ ~ret.val <=> Len(ret.out) = k + 1

Successes == Len(SelectSeq(ret.out, LAMBDA b : b))

C20_Counts ==
    /\ call.op = RepeatReserve
          => /\ LoopResults(Arg.rooms_available)
             /\ inst[1].rooms_available = Arg.rooms_available - Successes
             /\ ~ret.val => inst[1].rooms_available = 0
    /\ call.op = RepeatCancel
          => /\ LoopResults(Arg.total_rooms - Arg.rooms_available)
             /\ inst[1].rooms_available = Arg.rooms_available + Successes
             /\ ~ret.val => inst[1].rooms_available = inst[1].total_rooms

(* C20: on a valid hotel with rooms_available = k, reserve_room called again
   and again succeeds exactly k times, leaves rooms_available = 0 and fails at
   call k + 1; cancel_reservation called again and again succeeds exactly
   total_rooms - rooms_available times, leaves rooms_available = total_rooms
   and fails at the next call; either loop reaches its failing call. *)
C20_RepeatUntilFailure ==
    /\ []C20_Counts
    /\ (call.op = RepeatReserve) ~> (call.op = RepeatReserve /\ ~ret.val)
    /\ (call.op = RepeatCancel) ~> (call.op = RepeatCancel /\ ~ret.val)

\* Two rooms were available: two calls succeeded and the third failed.
C20_Witness ==
    /\ call.op = RepeatReserve
    /\ Arg.rooms_available = 2
    /\ ret.out = <<TRUE, TRUE, FALSE>>
    /\ inst[1].rooms_available = 0


----------------------------------------------------------------------------
(* Hotel.update seen from its caller: the hotel before the call (Arg), the
   arguments of the call and the hotel after it (inst[1]). *)
UpdateArgs == call.ent[2]
Supplied(i) == UpdateArgs[i] # <<>>
NewTotal == UpdateArgs[3][1]
Occupied(h) == h.total_rooms - h.rooms_available

(* C21: on a hotel for which validate() is true, update(total_rooms=T) with
   a number T >= total_rooms - rooms_available sets total_rooms to T and
   changes rooms_available by the same amount, so that the number of occupied
   rooms is the one before the call. *)
C21_UpdateKeepsOccupied ==
    (/\ call.op = "Hotel.update"
     /\ Hotel_validate(Arg)
     /\ Supplied(3) /\ isinstance_number(NewTotal)
     /\ NewTotal >= Occupied(Arg))
        => /\ ret.exc = "none"
           /\ inst[1].total_rooms = NewTotal
           /\ inst[1].rooms_available
                  = Arg.rooms_available + (NewTotal - Arg.total_rooms)
           /\ Occupied(inst[1]) = Occupied(Arg)

\* A hotel with a room reserved grows by one room.
C21_Witness ==
    /\ call.op = "Hotel.update"
    /\ ret.val
    /\ Hotel_validate(Arg)
    /\ Arg.total_rooms = 2 /\ Arg.rooms_available = 1
    /\ Supplied(3) /\ NewTotal = 3
    /\ inst[1].total_rooms = 3 /\ inst[1].rooms_available = 2


----------------------------------------------------------------------------
(* A caller that builds a hotel with any room counts, valid or not
   (rooms_available may exceed total_rooms), and calls update on it again and
   again with any arguments. *)
NextUpdates ==
    \/ inst = <<>> /\ New_Hotel(RoomHotels(clock))
    \/ Call_Hotel_update(AnyHotelUpdates)

SpecUpdates == Init /\ [][NextUpdates]_vars

\* update(total_rooms=T) with a number T below the occupied rooms.
BelowOccupied == Supplied(3) /\ isinstance_number(NewTotal) /\ NewTotal < Occupied(Arg)

(* C22: for any hotel, update(total_rooms=T) with T < total_rooms -
   rooms_available returns False and leaves total_rooms and rooms_available
   as they were. *)
C22_UpdateBelowOccupiedRejected ==
    (call.op = "Hotel.update" /\ BelowOccupied)
        => /\ ret.exc = "none"
           /\ ~ret.val
           /\ inst[1].total_rooms = Arg.total_rooms
           /\ inst[1].rooms_available = Arg.rooms_available

\* Both rooms are occupied and the hotel is asked to shrink to one room.
C22_Witness ==
    /\ call.op = "Hotel.update"
    /\ Arg.total_rooms = 2 /\ Arg.rooms_available = 0
    /\ Supplied(3) /\ NewTotal = 1
    /\ ~ret.val
    /\ inst[1].total_rooms = 2 /\ inst[1].rooms_available = 0

(* C23, as the spec states it: for every hotel and every combination of
   supplied arguments, the value update returns is the result of validate()
   on the hotel after the call. *)
C23_UpdateReturnsValidate ==
    (call.op = "Hotel.update" /\ ret.exc = "none")
        => (ret.val <=> Hotel_validate(inst[1]))

(* C23, amended: for every hotel with numeric room counts and every
   combination of supplied arguments in which total_rooms, when supplied, is
   a number, update returns False when total_rooms is supplied and below the
   number of occupied rooms, and otherwise returns the result of validate()
   on the hotel after the call. *)
C23_UpdateReturnsValidateUnlessRejected ==
    (call.op = "Hotel.update" /\ (Supplied(3) => isinstance_number(NewTotal)))
        => /\ ret.exc = "none"
           /\ ret.val <=> (~BelowOccupied /\ Hotel_validate(inst[1]))

\* A rejected update returns False on a hotel that is valid after the call.
C23_Witness ==
    /\ call.op = "Hotel.update"
    /\ BelowOccupied
    /\ ~ret.val
    /\ Hotel_validate(inst[1])

\* update went past the test of the occupied rooms and validate() failed.
FailedValidation ==
    /\ ret.exc = "none"
    /\ ~ret.val
    /\ ~BelowOccupied

(* C24: update is partial and does not roll back: a name, location or price
   that is not supplied keeps its value, hotel_id and created_date never
   change, and when update returns False because validate() fails after the
   assignments, every supplied field holds the value supplied. *)
C24_UpdatePartialNoRollback ==
    call.op = "Hotel.update"
        => /\ ~Supplied(1) => inst[1].name = Arg.name
           /\ ~Supplied(2) => inst[1].location = Arg.location
           /\ ~Supplied(4) => inst[1].price_per_room = Arg.price_per_room
           /\ inst[1].hotel_id = Arg.hotel_id
           /\ inst[1].created_date = Arg.created_date
           /\ FailedValidation
                => /\ Supplied(1) => inst[1].name = UpdateArgs[1][1]
                   /\ Supplied(2) => inst[1].location = UpdateArgs[2][1]
                   /\ Supplied(3) => inst[1].total_rooms = NewTotal
                   /\ Supplied(4) => inst[1].price_per_room = UpdateArgs[4][1]

\* A valid hotel is left invalid in memory: the new location is kept, and so
\* is the negative price that made validate() fail.
C24_Witness ==
    /\ call.op = "Hotel.update"
    /\ Hotel_validate(Arg)
    /\ UpdateArgs = <<<<>>, <<"Boston">>, <<>>, <<0 - 1>>>>
    /\ ~ret.val
    /\ inst[1].location = "Boston" /\ inst[1].price_per_room = 0 - 1
    /\ inst[1].name = Arg.name
    /\ ~Hotel_validate(inst[1])


----------------------------------------------------------------------------
(* A caller that builds one reservation with any field values and calls its
   methods on it, in any order: cancel, validate, and to_dict followed by
   from_dict. *)
NextCancel ==
    \/ inst = <<>> /\ New_Reservation(AnyReservations(clock))
    \/ Call_Reservation_cancel
    \/ Call_Reservation_validate
    \/ Call_Reservation_from_dict

SpecCancel == Init /\ [][NextCancel]_vars

\* What one call of cancel() returns and does to the instance.
C25_Cancel ==
    call.op = "Reservation.cancel"
        => /\ ret.exc = "none"
           /\ Arg.status = "active"
                => ret.val /\ inst = <<[Arg EXCEPT !.status = "cancelled"]>>
           /\ Arg.status = "cancelled" => ~ret.val /\ inst = <<Arg>>

\* A step that changes the status of the held reservation is a call of
\* cancel() that takes it from active to cancelled.
C25_StatusStep ==
    (HeldReservation # {} /\ inst'[1].status # inst[1].status)
        => /\ call'.op = "Reservation.cancel"
           /\ inst[1].status = "active"
           /\ inst'[1].status = "cancelled"

(* C25: cancel() is the only operation on a reservation that changes its
   status, and only from active to cancelled: on an active reservation it
   returns True and sets status to cancelled, on a cancelled one it returns
   False, raises nothing and changes no field; along any sequence of calls
   the status never goes from cancelled back to active. *)
C25_StatusOnlyActiveToCancelled ==
    /\ []C25_Cancel
    /\ [][C25_StatusStep]_vars
    /\ [][(HeldReservation # {} /\ inst[1].status = "cancelled")
            => inst'[1].status = "cancelled"]_vars

\* The second cancel() of a reservation: it fails and changes nothing.
C25_Witness ==
    /\ call.op = "Reservation.cancel"
    /\ Arg.status = "cancelled"
    /\ ~ret.val
    /\ ret.exc = "none"
    /\ inst = <<Arg>>
    /\ Reservation_validate(Arg)


----------------------------------------------------------------------------
\* The dates of r parse and check_in is strictly before check_out.
DatesInOrder(r) ==
    /\ fromisoformat(r.check_in).ok
    /\ fromisoformat(r.check_out).ok
    /\ fromisoformat(r.check_in).t < fromisoformat(r.check_out).t

(* C26: for every reservation, validate() is true if and only if
   reservation_id, customer_id, hotel_id, check_in and check_out are non-empty
   strings, status is active or cancelled, both dates parse and check_in is
   strictly before check_out. *)
C26_ReservationValidateIff ==
    call.op = "Reservation.validate"
        => ((ret.exc = "none" /\ ret.val)
               <=> /\ NonEmptyString(Arg.reservation_id)
                   /\ NonEmptyString(Arg.customer_id)
                   /\ NonEmptyString(Arg.hotel_id)
                   /\ NonEmptyString(Arg.check_in)
                   /\ NonEmptyString(Arg.check_out)
                   /\ Arg.status \in {"active", "cancelled"}
                   /\ DatesInOrder(Arg))


----------------------------------------------------------------------------
(* Documents the engine reads but did not write: JSON lists whose elements
   are complete records, valid or not, records without an optional or a
   required key, and elements that are no object. *)
AnyElements(kind) ==
    LET h == Hotel_to_dict(Hotel("H2", "Grand Plaza Hotel", "New York", 2, 2, 150, 0))
        c == Customer_to_dict(Customer("C2", "John Smith", "john@example.com",
                                       "555-1001", 0))
        r == Reservation_to_dict(Reservation("R2", "C1", "H1", "2026-03-01",
                                             "2026-03-05", "cancelled", 0))
    IN  ForeignElements(kind) \cup
        CASE kind = "hotels" ->
                 {h, [h EXCEPT !.rooms_available = 3], [h EXCEPT !.name = ""],
                  [h EXCEPT !.absent = {"rooms_available", "price_per_room"}]}
          [] kind = "customers" ->
                 {c, [c EXCEPT !.email = "invalid-email"], [c EXCEPT !.phone = None]}
          [] OTHER ->
                 {r, [r EXCEPT !.check_in = "2026-03-05"], [r EXCEPT !.status = "pending"],
                  [r EXCEPT !.check_out = "2026-03-05T00:00:00+00:00"],
                  [r EXCEPT !.absent = {"status"}]}

\* The document of one collection is found with one more element.
Found ==
    /\ TotalRecords(Files) < MaxRecords
    /\ \E kind \in {"hotels", "customers", "reservations"} :
          \E x \in AnyElements(kind) :
              LET f == [cond |-> "ok", data |-> Append(Files[kind].data, x)]
              IN  /\ hotels_file' = IF kind = "hotels" THEN f ELSE hotels_file
                  /\ customers_file' = IF kind = "customers" THEN f ELSE customers_file
                  /\ reservations_file' = IF kind = "reservations" THEN f
                                                                   ELSE reservations_file
    /\ UNCHANGED <<clock, inst, callers, last_writer>>
    /\ Called("(found)", "", <<>>, "ok", "none", TRUE, <<>>)

NextReadAll ==
    \/ Found
    \/ Call_get_all_hotels
    \/ Call_get_all_customers
    \/ Call_get_all_reservations

SpecReadAll == Init /\ [][NextReadAll]_vars

ReadAllOps == {"get_all_hotels", "get_all_customers", "get_all_reservations"}

\* The keys a record must hold to deserialize.
RequiredKeys(kind) ==
    CASE kind = "hotels" -> {"hotel_id", "name", "location", "total_rooms"}
      [] kind = "customers" -> {"customer_id", "name", "email", "phone"}
      [] OTHER -> {"reservation_id", "customer_id", "hotel_id", "check_in", "check_out"}

Deserializes(kind, d) == d.shape = "object" /\ RequiredKeys(kind) \cap d.absent = {}

Deserialized(kind, d) ==
    CASE kind = "hotels" -> Hotel_from_dict(d, 0)
      [] kind = "customers" -> Customer_from_dict(d, 0)
      [] OTHER -> Reservation_from_dict(d, 0)

\* The element d deserializes and the instance it gives validates.
Readable(kind, d) == Deserializes(kind, d) /\ IsValid(kind, Deserialized(kind, d))

\* The instance e holds the value of every key the record d holds;
\* created_date is compared in C11 and C12.
BuiltFrom(kind, e, d) ==
    \A k \in DOMAIN d \ ({"shape", "absent", "created_date"} \cup d.absent) :
        Serialized(kind, e)[k] = d[k]

(* C27: for any decodable document, records without required fields and
   records that violate the field invariants included, read-all returns, in
   document order, exactly the records that deserialize and validate, and
   skips every other element without failing. *)
C27_ReadAllSkipsBadRecords ==
    call.op \in ReadAllOps
        => LET kept == SelectSeq(DocBefore, LAMBDA d : Readable(Kind, d))
           IN  /\ ret.exc = "none"
               /\ Len(ret.out) = Len(kept)
               /\ \A i \in 1..Len(kept) : BuiltFrom(Kind, ret.out[i], kept[i])

\* A record without its name, then a valid record: the read returns the
\* second alone.
C27_Witness ==
    /\ call.op = "get_all_hotels"
    /\ Len(DocBefore) = 2
    /\ DocBefore[1].shape = "object" /\ DocBefore[1].absent = {"name"}
    /\ Readable("hotels", DocBefore[2])
    /\ Len(ret.out) = 1
    /\ ret.out[1].hotel_id = DocBefore[2].hotel_id


----------------------------------------------------------------------------
\* The status read-by-key finds stored under reservation_id: the one of the
\* first record under it, "none" when there is no such record.
StoredStatus(data, reservation_id) ==
    IF Matches(data, "reservation_id", reservation_id) = {} THEN "none"
    ELSE data[FirstMatch(data, "reservation_id", reservation_id)].status

(* C28: in the stored reservations, across every engine operation that does
   not delete the record, a reservation_id whose stored status is cancelled
   does not have the stored status active afterwards. *)
C28_StoredCancelledStaysCancelled ==
    call.op \notin {"delete_reservation", "clear_all_data"}
        => \A id \in ReservationIds :
              StoredStatus(before.reservations.data, id) = "cancelled"
                  => StoredStatus(reservations_file.data, id) # "active"

----------------------------------------------------------------------------
\* Read-by-key and create on the files as they are now.
ReadByKey(kind, key) ==
    CASE kind = "hotels" -> get_hotel(hotels_file, key, clock)
      [] kind = "customers" -> get_customer(customers_file, key, clock)
      [] OTHER -> get_reservation(reservations_file, key, clock)

CreateNow(kind, e) ==
    CASE kind = "hotels" -> create_hotel(hotels_file, e, "ok")
      [] kind = "customers" -> create_customer(customers_file, e, "ok")
      [] OTHER -> create_reservation(reservations_file, e, "ok")

\* The valid entities of a kind a caller may build under key.
ValidUnder(kind, key) ==
    {e \in CASE kind = "hotels" -> HotelInputs(clock)
              [] kind = "customers" -> CustomerInputs(clock)
              [] OTHER -> ReservationInputs(clock) :
        IsValid(kind, e) /\ e[KeyField(kind)] = key}

(* C29: for each collection, right after delete(key) has returned success no
   stored record has that key: read-by-key(key) returns none, and create of
   any valid entity with that key succeeds. *)
C29_DeletedKeyIsFree ==
    (call.op \in DeleteOps /\ ret.val)
        => /\ Matches(DocAfter, KeyField(Kind), call.key) = {}
           /\ ReadByKey(Kind, call.key) = [exc |-> "none", out |-> <<>>]
           /\ \A e \in ValidUnder(Kind, call.key) :
                  /\ CreateNow(Kind, e).exc = "none"
                  /\ CreateNow(Kind, e).val
                  /\ CreateNow(Kind, e).file.data = Append(DocAfter, Serialized(Kind, e))

\* One of two stored hotels is deleted; its key is free, the other stays.
C29_Witness ==
    /\ call.op = "delete_hotel"
    /\ ret.val
    /\ Len(DocBefore) = 2
    /\ Len(DocAfter) = 1
    /\ DocAfter[1].hotel_id # call.key
    /\ ValidUnder("hotels", call.key) # {}
    /\ \A e \in ValidUnder("hotels", call.key) : CreateNow("hotels", e).val

(* C30: right after create(E) or update(key, E) has returned success,
   read-by-key of E's key returns an entity whose every field other than
   created_date equals E's. *)
C30_ReadAfterWrite ==
    (call.op \in CreateOps \cup UpdateOps /\ ret.val)
        => LET r == ReadByKey(Kind, Arg[KeyField(Kind)])
           IN  /\ r.exc = "none"
               /\ r.out # <<>>
               /\ [Serialized(Kind, r.out[1]) EXCEPT !.created_date = Arg.created_date]
                      = Serialized(Kind, Arg)

==========================================================================
